---- MODULE Spec2Model ----
(***************************************************************************)
(* Verification model of the agent-deck concurrency core:                  *)
(*   - SessionObserver   (internal/session/observer.go)                    *)
(*   - WatchManager      (internal/session watch manager)                  *)
(*   - status scheduler and notification sync of the UI (Home worker)      *)
(* Each component has its own specification (SpecObs, SpecGoals,           *)
(* SpecWatch, SpecEval, SpecSched, SpecWide, SpecNotify, SpecSave,         *)
(* SpecRemove, SpecAI, SpecTick, SpecFair, SpecUndo, SpecReload, SpecLoad, *)
(* SpecCache, SpecEdit); the variables of the other components stay        *)
(* unchanged in it.                                                        *)
(***************************************************************************)
EXTENDS Integers, Sequences, FiniteSets, TLC

VARIABLES
    \* ---- SessionObserver ----
    obsCfg,        \* AIObservationSettings: [RetentionCount, MaxSizeBytes]
    obsSessions,   \* o.sessions: session id -> ObservedSession (or absent)
    obsMu,         \* o.mu: "free" or "locked" (a Go mutex has no owner)
    obsPc,         \* position of every goroutine that calls Observe
    obsLocal,      \* its locals: instance id, captured content, outcome
    obsDisk,       \* observations/<id>.json: the list last persisted
    crashed,       \* the runtime ended the process (fatal error)
    obsCall,       \* the goroutine that calls RemoveSession, LoadObservations, GetObservations
    \* ---- WatchManager ----
    watchCfg,      \* AIWatchSettings: [MaxConcurrentGoals]
    goals,         \* w.goals: goal id -> WatchGoal (or absent)
    goalsFile,     \* watch_goals.json as LoadGoals parses it
    loadPc,        \* LoadGoals: 0 = not running, k = about to add entry k
    lastAdd,       \* outcome of the latest AddGoal call
    stopCh,        \* w.stopCh: 0 is nil, n the channel the n-th Start made
    chanCount,     \* channels made so far
    closedChs,     \* the channels that have been closed
    wg,            \* w.wg: the WaitGroup counter
    workers,       \* the runGoalWorker goroutines, by <<start, goal id>>
    callPc,        \* position of every goroutine that calls Start or Stop
    callLocal,     \* its locals, and what its last call did
    startDone,     \* the Starts that have returned (by channel)
    watchEmitted,  \* what the evaluations have emitted so far
    \* ---- status scheduler and notification sync (Home) ----
    status,        \* h.instances, in order: the Status of every instance
    acked,         \* its tmux session was acknowledged since it last worked
    pane,          \* what its pane shows (the input of UpdateStatus)
    view,          \* the viewport of the UI: viewOffset, visibleHeight, flatItemIDs
    statusUpdateIndex, \* h.statusUpdateIndex, the round-robin cursor
    statusTrigger, \* h.statusTrigger, a channel of capacity 1
    notificationsEnabled, \* h.notificationsEnabled
    ackSignal,     \* the ack signal file: 0, or the session it names
    entries,       \* the entries of the notification manager, by key order
    lastBarText,   \* h.lastBarText
    bar,           \* the status-left of the multiplexer
    boundKeys,     \* h.boundKeys: key -> "<sessionID>:<tmuxName>"
    syncPc,        \* position of the worker ("bg") and of the UI ("fg")
    syncLocal,     \* their locals in the notification sync
    lastTick,      \* what the latest scheduler tick of the worker did
    probe,         \* the session whose staleness is measured
    age,           \* ticks completed since UpdateStatus was last called on it
    \* ---- the saved file (SaveObservations, SaveGoals) ----
    fsDir,         \* the directory: name ("path", "tmp") -> inode, 0 when absent
    fsData,        \* the content of every inode, chunk by chunk
    inodeCount,    \* inodes created so far
    savePc,        \* position of every goroutine that saves the file
    saveLocal,     \* its locals: the marshalled data, the descriptor, the offset
    \* ---- package ai: WithRetry and the providers ----
    retry,         \* one run of WithRetry: position, calls of fn, sleeps, outcome
    chat,          \* one call of a provider's Chat: the call and what the caller got
    \* ---- the count of the scheduler's calls ----
    fair,          \* ticks run so far and UpdateStatus calls per session, while counted
    \* ---- instancesMu and the status-counts cache (Home) ----
    lockedCalls,   \* the sessions the latest tick or sync called while it held instancesMu
    cachedValid,   \* h.cachedStatusCounts.valid
    cachedCounts,  \* h.cachedStatusCounts: status -> number of sessions
    \* ---- the UI: undo stack, cursor, watch dialog ----
    undoStack,     \* h.undoStack, oldest entry first
    deleted,       \* sessions deleted so far (the next one deleted is a new instance)
    cursor,        \* h.cursor
    flatItems,     \* h.flatItems
    viewOffset,    \* h.viewOffset
    uiErr,         \* h.err is set
    uiLast,        \* the latest operation of the UI and what it was given
    edit           \* WatchDialog.updateGoal: position, the goal edited, the outcome

obsVars == <<obsCfg, obsSessions, obsMu, obsPc, obsLocal, obsDisk, crashed>>

goalVars == <<watchCfg, goals, goalsFile, loadPc, lastAdd>>

runVars == <<stopCh, chanCount, closedChs, wg, workers, callPc, callLocal, startDone>>

homeVars == <<status, acked, pane, view, statusUpdateIndex, statusTrigger,
              notificationsEnabled, ackSignal, entries, lastBarText, bar, boundKeys,
              syncPc, syncLocal, lastTick, probe, age, lockedCalls, cachedValid, cachedCounts>>

saveVars == <<fsDir, fsData, inodeCount, savePc, saveLocal>>

aiVars == <<retry, chat>>

uiVars == <<undoStack, deleted, cursor, flatItems, viewOffset, uiErr, uiLast, edit>>

vars == <<obsCfg, obsSessions, obsMu, obsPc, obsLocal, obsDisk, crashed, obsCall,
          watchCfg, goals, goalsFile, loadPc, lastAdd,
          stopCh, chanCount, closedChs, wg, workers, callPc, callLocal, startDone,
          watchEmitted,
          status, acked, pane, view, statusUpdateIndex, statusTrigger,
          notificationsEnabled, ackSignal, entries, lastBarText, bar, boundKeys,
          syncPc, syncLocal, lastTick, probe, age,
          fsDir, fsData, inodeCount, savePc, saveLocal,
          retry, chat, fair, lockedCalls, cachedValid, cachedCounts,
          undoStack, deleted, cursor, flatItems, viewOffset, uiErr, uiLast, edit>>

\* What the SessionObserver never touches.
\* What the callers of Observe never touch.
nonObserveVars == <<goalVars, runVars, watchEmitted, homeVars, saveVars, aiVars, fair, uiVars>>

nonObsVars == <<nonObserveVars, obsCall>>

\* What the goal-set operations of the WatchManager never touch.
nonGoalVars == <<obsCfg, obsSessions, obsMu, obsPc, obsLocal, obsDisk, crashed, obsCall, runVars, watchEmitted, homeVars, saveVars, aiVars, fair, uiVars>>

\* What the workers and Start/Stop of the WatchManager never touch.
nonWorkerVars == <<obsCfg, obsSessions, obsMu, obsPc, obsLocal, obsDisk, obsCall,
                   watchCfg, goalsFile, loadPc, lastAdd, homeVars, saveVars, aiVars, fair, uiVars>>

\* The same, and what only the end of an evaluation emits.
nonRunVars == <<nonWorkerVars, watchEmitted>>

\* What the scheduler and the notification sync never touch.
\* What a tick of the scheduler never touches.
nonTickVars == <<obsCfg, obsSessions, obsMu, obsPc, obsLocal, obsDisk, crashed, obsCall, goalVars, runVars, watchEmitted, saveVars, aiVars, uiVars>>

\* What the notification sync never touches.
nonSyncVars == <<nonTickVars, fair, cachedValid, cachedCounts>>

nonHomeVars == <<nonSyncVars, lockedCalls>>

\* What a save of the file never touches.
nonSaveVars == <<obsCfg, obsSessions, obsMu, obsPc, obsLocal, obsDisk, obsCall, goalVars, runVars, watchEmitted, homeVars, aiVars, fair, uiVars>>

Min(a, b) == IF a < b THEN a ELSE b

(***************************************************************************)
(* SessionObserver                                                         *)
(***************************************************************************)

\* Bounds of the observer model.
NumObsSessions == 2
MaxContentLen == 1
MaxRetentionCfg == 2
RemoveRetention == 1
MaxSizeCfg == 0

\* Defaults of the observer (used when the configuration leaves a field nil).
DefaultMaxObservationSize == 51200
DefaultMaxObservationsPerSession == 100

ObsSessionIDs == 1..NumObsSessions
\* The goroutines that call Observe (two callers run concurrently).
ObsThreads == {"g1", "g2"}
Bytes == {"a"}

\* Every pane content of at most MaxContentLen bytes.
Contents == UNION {[1..n -> Bytes] : n \in 0..MaxContentLen}

\* A configuration field is a pointer: the empty set is nil, {v} points at v.
Deref(ptr) == CHOOSE v \in ptr : TRUE

\* SHA-256 of the full content, hex encoded: collision free, and never the
\* empty string that a fresh ObservedSession holds as ContentHash.
Sha256Hex(content) == <<"sha256", content>>
EmptyHash == <<>>

maxSizeBytes == IF obsCfg.MaxSizeBytes # {} THEN Deref(obsCfg.MaxSizeBytes) ELSE DefaultMaxObservationSize

retentionCount == IF obsCfg.RetentionCount # {} THEN Deref(obsCfg.RetentionCount) ELSE DefaultMaxObservationsPerSession

Absent == [present |-> FALSE, Observations |-> <<>>, ContentHash |-> EmptyHash]

\* content[:maxSize] when len(content) > maxSize (maxSize >= 0 here).
Truncate(content, maxSize) == IF Len(content) > maxSize THEN SubSeq(content, 1, maxSize) ELSE content

\* The mutant of EvictAppend: the newest entry is evicted, not the oldest.
EvictAppend_DropNewest(observations, obs, limit) ==
    IF Len(observations) >= limit
    THEN Append(SubSeq(observations, 1, Len(observations) - 1), obs)
    ELSE Append(observations, obs)

\* The mutant of EvictAppend: the eviction is forgotten.
EvictAppend_NoEvict(observations, obs, limit) == Append(observations, obs)

\* Ring buffer with FIFO eviction: shift left by one when the limit is
\* reached, then append (len(observations) >= 1 here).
EvictAppend(observations, obs, limit) == IF Len(observations) >= limit THEN Append(Tail(observations), obs) ELSE Append(observations, obs)

\* Does the critical section of Observe panic?  make() with a negative
\* capacity, content[:maxSize] with a negative maxSize, and
\* Observations[1:] of an empty slice all do.
MakePanics(sid) == ~obsSessions[sid].present /\ retentionCount < 0

TruncatePanics(content) == Len(content) > maxSizeBytes /\ maxSizeBytes < 0

EvictPanics(sid) == Len(obsSessions[sid].Observations) >= retentionCount /\ Len(obsSessions[sid].Observations) = 0

\* sync.RWMutex.Unlock: releases the lock whoever took it; on a mutex that
\* is not locked the runtime ends the process ("Unlock of unlocked RWMutex").
MuUnlock == IF obsMu = "locked" THEN obsMu' = "free" /\ crashed' = crashed ELSE obsMu' = obsMu /\ crashed' = TRUE

\* The ObservedSession a saver holds is still in o.sessions, or it was
\* deleted from the map and keeps the list it had then.  seen is the list
\* as the saver found it when it began to read it, instants the lists the
\* session has held since.
Attached == [detached |-> FALSE, Observations |-> <<>>, seen |-> <<>>, instants |-> {}]

\* json.MarshalIndent(observed.Observations) of line 274 reads the slice
\* without the lock, while an Observe may shift and append in the same
\* array (lines 154-159): every element it reads is the one it found first
\* or the one that is there in the end.
Mixes(seen, final) ==
    {l \in [1..Len(seen) -> {seen[i] : i \in 1..Len(seen)} \cup {final[i] : i \in 1..Len(final)}] :
        \A i \in 1..Len(seen) : l[i] = seen[i] \/ (i <= Len(final) /\ l[i] = final[i])}

\* The savers of session sid, other than t, that are reading its list.
ReadersOf(sid, t) ==
    {u \in ObsThreads \ {t} : obsPc[u] = "persist" /\ obsLocal[u].sid = sid /\ ~obsLocal[u].observed.detached}

\* The locals of the savers after the list of session sid became list.
NotedBy(locals, sid, t, list) ==
    [u \in ObsThreads |->
        IF u \in ReadersOf(sid, t)
        THEN [locals[u] EXCEPT !.observed.instants = @ \cup {list}]
        ELSE locals[u]]

\* The mutant of ContentUnchanged: the hash is never compared.
ContentUnchanged_Never(hashStr, observed) == FALSE

\* Line 131: hashStr == observed.ContentHash.
ContentUnchanged(hashStr, observed) == hashStr = observed.ContentHash

IdleLocal == [sid |-> 0, content |-> <<>>, outcome |-> "none", observed |-> Attached]

\* The goroutine of the UI that deletes a session and reads its observations.
IdleObsCall == [pc |-> "idle", sid |-> 0, data |-> <<>>, stage |-> 0, target |-> 0, result |-> <<>>]

\* Observe, lines 93-111: the pane is captured and hashed before the lock.
\* A nil instance, a nil tmux session or a failed capture returns an error.
ObserveStart(t) ==
    /\ ~crashed
    /\ obsPc[t] = "idle"
    /\ \E sid \in ObsSessionIDs, content \in Contents, captured \in BOOLEAN :
        IF captured
        THEN /\ obsPc' = [obsPc EXCEPT ![t] = "lock"]
             /\ obsLocal' = [obsLocal EXCEPT ![t] = [IdleLocal EXCEPT !.sid = sid, !.content = content]]
        ELSE /\ obsPc' = obsPc
             /\ obsLocal' = obsLocal
    /\ UNCHANGED <<obsCfg, obsSessions, obsMu, obsDisk, crashed>>
    /\ UNCHANGED nonObsVars

\* o.mu.Lock() (line 113); the unlock is deferred (line 114).
ObserveLock(t) ==
    /\ ~crashed
    /\ obsPc[t] = "lock"
    /\ obsMu = "free"
    /\ obsMu' = "locked"
    /\ obsPc' = [obsPc EXCEPT ![t] = "cs"]
    /\ UNCHANGED <<obsCfg, obsSessions, obsLocal, obsDisk, crashed>>
    /\ UNCHANGED nonObsVars

\* Lines 116-159, the section run with the lock taken.
ObserveCS(t) ==
    /\ ~crashed
    /\ obsPc[t] = "cs"
    /\ LET sid == obsLocal[t].sid
           content == obsLocal[t].content
           hashStr == Sha256Hex(content)
           observed == obsSessions[sid]
           created == [observed EXCEPT !.present = TRUE]
           obs == [Content |-> Truncate(content, maxSizeBytes), ContentHash |-> hashStr]
       IN  IF MakePanics(sid)
           THEN /\ obsSessions' = obsSessions
                /\ obsLocal' = [obsLocal EXCEPT ![t].outcome = "panic"]
                /\ obsPc' = [obsPc EXCEPT ![t] = "return"]
           ELSE IF ContentUnchanged(hashStr, observed)
           THEN /\ obsSessions' = [obsSessions EXCEPT ![sid] = created]
                /\ obsLocal' = [obsLocal EXCEPT ![t].outcome = "unchanged"]
                /\ obsPc' = [obsPc EXCEPT ![t] = "return"]
           ELSE IF TruncatePanics(content) \/ EvictPanics(sid)
           THEN /\ obsSessions' = [obsSessions EXCEPT ![sid] = [created EXCEPT !.ContentHash = hashStr]]
                /\ obsLocal' = [obsLocal EXCEPT ![t].outcome = "panic"]
                /\ obsPc' = [obsPc EXCEPT ![t] = "return"]
           ELSE /\ obsSessions' = [obsSessions EXCEPT ![sid] =
                        [present |-> TRUE,
                         Observations |-> EvictAppend(observed.Observations, obs, retentionCount),
                         ContentHash |-> hashStr]]
                /\ obsLocal' = NotedBy([obsLocal EXCEPT ![t].outcome =
                                          IF Len(observed.Observations) >= retentionCount THEN "evicted" ELSE "stored"],
                                       sid, t, EvictAppend(observed.Observations, obs, retentionCount))
                /\ obsPc' = [obsPc EXCEPT ![t] = "unlock"]
    /\ UNCHANGED <<obsCfg, obsMu, obsDisk, crashed>>
    /\ UNCHANGED nonObsVars

\* o.mu.Unlock() of line 161, before the observations are persisted.
ObserveUnlock(t) ==
    /\ ~crashed
    /\ obsPc[t] = "unlock"
    /\ MuUnlock
    /\ obsPc' = [obsPc EXCEPT ![t] = "save"]
    /\ UNCHANGED <<obsCfg, obsSessions, obsLocal, obsDisk>>
    /\ UNCHANGED nonObsVars

\* SaveObservations, lines 253-259: the session is looked up under the read
\* lock; a session that is gone is an error, which Observe only logs.
SaveLookup(t) ==
    /\ ~crashed
    /\ obsPc[t] = "save"
    /\ obsMu = "free"
    /\ obsPc' = [obsPc EXCEPT ![t] = IF obsSessions[obsLocal[t].sid].present THEN "persist" ELSE "return"]
    /\ obsLocal' = IF obsSessions[obsLocal[t].sid].present
                   THEN [obsLocal EXCEPT ![t].observed =
                            [Attached EXCEPT !.seen = obsSessions[obsLocal[t].sid].Observations,
                                             !.instants = {obsSessions[obsLocal[t].sid].Observations}]]
                   ELSE obsLocal
    /\ UNCHANGED <<obsCfg, obsSessions, obsMu, obsDisk, crashed>>
    /\ UNCHANGED nonObsVars

\* SaveObservations, lines 274-304: the list is marshalled after the read
\* lock was released, written to the temp file and renamed; a failing step
\* leaves the file as it was.
SavePersist(t) ==
    /\ ~crashed
    /\ obsPc[t] = "persist"
    /\ LET final == IF obsLocal[t].observed.detached
                    THEN obsLocal[t].observed.Observations
                    ELSE obsSessions[obsLocal[t].sid].Observations
       IN  \E ok \in BOOLEAN, list \in {final} \cup Mixes(obsLocal[t].observed.seen, final) :
               obsDisk' = IF ok THEN [obsDisk EXCEPT ![obsLocal[t].sid] = list] ELSE obsDisk
    /\ obsPc' = [obsPc EXCEPT ![t] = "return"]
    /\ UNCHANGED <<obsCfg, obsSessions, obsMu, obsLocal, crashed>>
    /\ UNCHANGED nonObsVars

\* The return of Observe runs the deferred o.mu.Unlock() of line 114: after
\* line 161 this is a second unlock for one Lock.
ObserveReturn(t) ==
    /\ ~crashed
    /\ obsPc[t] = "return"
    /\ MuUnlock
    /\ obsPc' = [obsPc EXCEPT ![t] = "idle"]
    /\ obsLocal' = [obsLocal EXCEPT ![t] = IdleLocal]
    /\ UNCHANGED <<obsCfg, obsSessions, obsDisk>>
    /\ UNCHANGED nonObsVars

\* RemoveSession, lines 207-208: o.mu.Lock(), the unlock is deferred.
RemoveSessionLock ==
    /\ ~crashed
    /\ obsCall.pc = "idle"
    /\ obsMu = "free"
    /\ obsMu' = "locked"
    /\ \E sid \in ObsSessionIDs :
        obsCall' = [IdleObsCall EXCEPT !.pc = "remove", !.sid = sid]
    /\ UNCHANGED <<obsCfg, obsSessions, obsPc, obsLocal, obsDisk, crashed>>
    /\ UNCHANGED nonObserveVars

\* An Observe of the session has captured the pane and has not yet stored
\* its observation (lines 113-159 are still to run).
StoresLater(sid) == \E t \in ObsThreads : obsLocal[t].sid = sid /\ obsPc[t] \in {"lock", "cs"}

\* RemoveSession, line 209 and the return: delete(o.sessions, sessionID),
\* nothing else. A saver that has looked the session up keeps its object.
RemoveSessionDelete ==
    /\ ~crashed
    /\ obsCall.pc = "remove"
    /\ obsSessions' = [obsSessions EXCEPT ![obsCall.sid] = Absent]
    /\ obsLocal' = [t \in ObsThreads |->
                      IF /\ obsPc[t] = "persist"
                         /\ obsLocal[t].sid = obsCall.sid
                         /\ ~obsLocal[t].observed.detached
                      THEN [obsLocal[t] EXCEPT !.observed.detached = TRUE,
                                               !.observed.Observations = obsSessions[obsCall.sid].Observations]
                      ELSE obsLocal[t]]
    /\ MuUnlock
    /\ obsCall' = IF StoresLater(obsCall.sid) THEN IdleObsCall
                  ELSE [IdleObsCall EXCEPT !.stage = 1, !.target = obsCall.sid]
    /\ UNCHANGED <<obsCfg, obsPc, obsDisk>>
    /\ UNCHANGED nonObserveVars

\* A call on sid returns: it is step k of the call sequence
\* RemoveSession(id), LoadObservations(id), GetObservations(id) (result is
\* what the last step returned), or it is outside such a sequence.
CallReturns(k, sid, result) ==
    IF obsCall.stage = k - 1 /\ obsCall.target = sid
    THEN [IdleObsCall EXCEPT !.stage = k, !.target = sid, !.result = result]
    ELSE IdleObsCall

\* LoadObservations, lines 311-345: without a file the call returns nil; a
\* file is read and parsed before the lock is taken. (A file written by this
\* process is never older than the 30 days of line 326.)
LoadObservationsRead ==
    /\ ~crashed
    /\ obsCall.pc = "idle"
    /\ \E sid \in ObsSessionIDs :
        IF obsDisk[sid] = <<>>
        THEN obsCall' = CallReturns(2, sid, <<>>)
        ELSE obsCall' = [obsCall EXCEPT !.pc = "loadLock", !.sid = sid, !.data = obsDisk[sid]]
    /\ UNCHANGED <<obsCfg, obsSessions, obsMu, obsPc, obsLocal, obsDisk, crashed>>
    /\ UNCHANGED nonObserveVars

\* LoadObservations, lines 348-349.
LoadObservationsLock ==
    /\ ~crashed
    /\ obsCall.pc = "loadLock"
    /\ obsMu = "free"
    /\ obsMu' = "locked"
    /\ obsCall' = [obsCall EXCEPT !.pc = "load"]
    /\ UNCHANGED <<obsCfg, obsSessions, obsPc, obsLocal, obsDisk, crashed>>
    /\ UNCHANGED nonObserveVars

\* LoadObservations, lines 351-365: the parsed list becomes the list of the
\* session, of a new entry if there is none.
LoadObservationsStore ==
    /\ ~crashed
    /\ obsCall.pc = "load"
    /\ obsSessions' = [obsSessions EXCEPT ![obsCall.sid] =
                          [@ EXCEPT !.present = TRUE, !.Observations = obsCall.data]]
    /\ obsLocal' = [u \in ObsThreads |->
                      IF u \in ReadersOf(obsCall.sid, "none")
                      THEN [obsLocal[u] EXCEPT !.observed.seen = obsCall.data,
                                               !.observed.instants = @ \cup {obsCall.data}]
                      ELSE obsLocal[u]]
    /\ MuUnlock
    /\ obsCall' = CallReturns(2, obsCall.sid, <<>>)
    /\ UNCHANGED <<obsCfg, obsPc, obsDisk>>
    /\ UNCHANGED nonObserveVars

\* GetObservations, lines 173-185: a copy of the list under the read lock,
\* nil for a session that is not in the map.
GetObservations ==
    /\ ~crashed
    /\ obsCall.pc = "idle"
    /\ obsMu = "free"
    /\ \E sid \in ObsSessionIDs :
        obsCall' = CallReturns(3, sid, IF obsSessions[sid].present THEN obsSessions[sid].Observations ELSE <<>>)
    /\ UNCHANGED <<obsCfg, obsSessions, obsMu, obsPc, obsLocal, obsDisk, crashed>>
    /\ UNCHANGED nonObserveVars

(***************************************************************************)
(* WatchManager: the goal set (AddGoal, RemoveGoal, LoadGoals)             *)
(***************************************************************************)

\* The hard cap on goals, and the configured limits the model tries: a
\* small one, and one above the hard cap.
maxConcurrentGoals == 10
SmallGoalsCfg == 2
LargeGoalsCfg == 11

\* Bounds on the identifiers: those the callers name in AddGoal and
\* RemoveGoal, and those generateID() hands out.
NumClientGoalIDs == 2
NumGeneratedIDs == 1

\* Goal identifiers; 0 stands for the empty ID.  The goals file names one
\* more identifier than the hard cap; the generated ones are apart from
\* every name a caller or a file uses.
FileGoalIDs == 1..(maxConcurrentGoals + 1)
ClientGoalIDs == 1..NumClientGoalIDs
GeneratedIDs == (maxConcurrentGoals + 2)..(maxConcurrentGoals + 1 + NumGeneratedIDs)
GoalIDs == FileGoalIDs \cup GeneratedIDs
EmptyID == 0

WatchActionNotify == "notify"
WatchActionSuggest == "suggest"

\* strings.TrimSpace on a description, a sequence of characters.
RECURSIVE TrimLeft(_)
TrimLeft(str) == IF str # <<>> /\ Head(str) = " " THEN TrimLeft(Tail(str)) ELSE str

RECURSIVE TrimRight(_)
TrimRight(str) == IF str # <<>> /\ str[Len(str)] = " " THEN TrimRight(SubSeq(str, 1, Len(str) - 1)) ELSE str

TrimSpace(str) == TrimRight(TrimLeft(str))

Descriptions == {<<>>, <<" ">>, <<" ", "d">>}
SessionLists == {<<>>, <<1>>}

\* A goal pointer handed to AddGoal: NilGoal, or a WatchGoal.
NilGoal == [nil |-> TRUE]

\* The zero time.Time, and the time.Now() of the latest trigger.
ZeroTime == "zero"
TimeNow == "now"

\* Durations are counted in milliseconds.
Second == 1000
defaultWatchIntervalSeconds == 5

\* The intervals the model tries: a configured default in seconds, and an
\* interval of a goal that is positive and shorter than a second.
DefaultIntervalCfg == 2
SubSecondInterval == 500

\* A WatchGoal as a caller builds it; an Interval of 0 is one not set.
WatchGoalOf(id, description, sessions, action, paused, triggerCount) ==
    [nil |-> FALSE, ID |-> id, Description |-> description, Sessions |-> sessions,
     Action |-> action, Paused |-> paused, TriggerCount |-> triggerCount,
     LastTriggered |-> ZeroTime, Interval |-> 0]

\* defaultInterval(): a positive configured number of seconds, or 5 s.
DefaultInterval ==
    IF watchCfg.DefaultInterval # {} /\ Deref(watchCfg.DefaultInterval) > 0
    THEN Deref(watchCfg.DefaultInterval) * Second
    ELSE defaultWatchIntervalSeconds * Second

\* The goals the callers of the goal-set model pass in.
GoalInputs ==
    {NilGoal} \cup
    {WatchGoalOf(id, d, ss, "", FALSE, 0) :
        id \in ClientGoalIDs \cup {EmptyID}, d \in Descriptions, ss \in SessionLists} \cup
    {[WatchGoalOf(id, <<"d">>, <<1>>, "", FALSE, 0) EXCEPT !.Interval = SubSecondInterval] :
        id \in ClientGoalIDs}

NoGoal == [present |-> FALSE]

GoalCount == Cardinality({g \in GoalIDs : goals[g].present})

\* maxConcurrentGoals(): a positive configured limit replaces the default,
\* and nothing exceeds the hard cap.
MaxConcurrentGoalsLimit ==
    LET limit == IF watchCfg.MaxConcurrentGoals # {} /\ Deref(watchCfg.MaxConcurrentGoals) > 0
                 THEN Deref(watchCfg.MaxConcurrentGoals)
                 ELSE maxConcurrentGoals
    IN  IF limit > maxConcurrentGoals THEN maxConcurrentGoals ELSE limit

\* The mutant of GoalLimitReached: off by one.
GoalLimitReached_OffByOne(count, limit) == count > limit

\* len(w.goals) >= w.maxConcurrentGoals()
GoalLimitReached(count, limit) == count >= limit

\* The error AddGoal returns for a goal (not nil) whose ID, generated when
\* empty, is id, in the order the code checks; "ok" is the nil error.
AddGoalError(goal, id) ==
    IF TrimSpace(goal.Description) = <<>> THEN "goal description is empty"
    ELSE IF Len(goal.Sessions) = 0 THEN "goal sessions are empty"
    ELSE IF goals[id].present THEN "already exists"
    ELSE IF GoalLimitReached(GoalCount, MaxConcurrentGoalsLimit) THEN "max concurrent goals reached"
    ELSE "ok"

\* The goal AddGoal stores: trimmed description, defaulted action.  Expired
\* says that more than Timeout has passed since CreatedAt, which AddGoal
\* sets to the current time.
NewGoal(goal, id) ==
    [present |-> TRUE,
     Description |-> TrimSpace(goal.Description),
     Sessions |-> goal.Sessions,
     Action |-> IF goal.Action \notin {WatchActionNotify, WatchActionSuggest} THEN WatchActionNotify ELSE goal.Action,
     Paused |-> goal.Paused,
     TriggerCount |-> goal.TriggerCount,
     LastTriggered |-> goal.LastTriggered,
     Interval |-> IF goal.Interval <= 0 THEN DefaultInterval ELSE goal.Interval,
     Expired |-> FALSE]

\* AddGoal on goals and lastAdd.  generateID() returns a random ID, one
\* that no goal has.  lastAdd records the call: its error, whether exactly the limit
\* of goals existed, whether the goal was well formed with an unused ID,
\* whether the goal set changed, and whether the goal was well formed but
\* for an empty session list, with an unused ID and room below the limit.
\* (In short: called, err, atLimit, fresh, changed, allSessions.)
AddGoalCall(goal) ==
    IF goal.nil
    THEN /\ goals' = goals
         /\ lastAdd' = [called |-> TRUE, err |-> "goal is nil",
                        atLimit |-> GoalCount = MaxConcurrentGoalsLimit,
                        fresh |-> FALSE, changed |-> FALSE, allSessions |-> FALSE]
    ELSE \E id \in GoalIDs :
            /\ IF goal.ID = EmptyID THEN id \in GeneratedIDs /\ ~goals[id].present ELSE id = goal.ID
            /\ LET err == AddGoalError(goal, id)
               IN  /\ goals' = IF err = "ok" THEN [goals EXCEPT ![id] = NewGoal(goal, id)] ELSE goals
                   /\ lastAdd' = [called |-> TRUE,
                                  err |-> err,
                                  atLimit |-> GoalCount = MaxConcurrentGoalsLimit,
                                  fresh |-> TrimSpace(goal.Description) # <<>>
                                            /\ Len(goal.Sessions) > 0 /\ ~goals[id].present,
                                  changed |-> err = "ok",
                                  allSessions |-> TrimSpace(goal.Description) # <<>>
                                                  /\ Len(goal.Sessions) = 0 /\ ~goals[id].present
                                                  /\ GoalCount < MaxConcurrentGoalsLimit]

AddGoalFrom(inputs) ==
    /\ ~crashed
    /\ \E goal \in inputs : AddGoalCall(goal)
    /\ UNCHANGED <<watchCfg, goalsFile, loadPc>>
    /\ UNCHANGED nonGoalVars

AddGoal == AddGoalFrom(GoalInputs)

\* RemoveGoal: an empty or unknown ID is an error and changes nothing.
RemoveGoalFrom(ids) ==
    /\ ~crashed
    /\ \E id \in ids :
        goals' = IF id # EmptyID /\ goals[id].present THEN [goals EXCEPT ![id] = NoGoal] ELSE goals
    /\ UNCHANGED <<watchCfg, goalsFile, loadPc, lastAdd>>
    /\ UNCHANGED nonGoalVars

RemoveGoal == RemoveGoalFrom(ClientGoalIDs \cup GeneratedIDs \cup {EmptyID})

NoEdit == [pc |-> "idle"]

\* The form of the watch dialog: a name, a description, the sessions field
\* ("all" and the empty field give no session list), the interval in seconds.
FormInputs ==
    [name : {<<>>, <<"n">>}, desc : Descriptions, sessions : {"all", <<1>>}, interval : {0, DefaultIntervalCfg}]

\* updateGoal, lines 655-681: the error of the form, "ok" if it has none.
FormError(form) ==
    IF TrimSpace(form.name) = <<>> THEN "name is required"
    ELSE IF TrimSpace(form.desc) = <<>> THEN "description is required"
    ELSE IF form.interval < 1 THEN "interval must be a positive number"
    ELSE "ok"

\* updateGoal, lines 666-691: the goal built from the form.
FormGoal(id, form) ==
    [WatchGoalOf(id, TrimSpace(form.desc), IF form.sessions = "all" THEN <<>> ELSE form.sessions,
                 WatchActionNotify, FALSE, 0)
        EXCEPT !.Interval = form.interval * Second]

\* updateGoal, lines 655-695: the form is checked, the goal is built and
\* the goal edited is removed from the manager; an error of the form or of
\* RemoveGoal is returned.
UpdateGoalRemove ==
    /\ ~crashed
    /\ edit.pc = "idle"
    /\ \E id \in ClientGoalIDs, form \in FormInputs :
        LET err == IF FormError(form) # "ok" THEN FormError(form)
                   ELSE IF ~goals[id].present THEN "not found"
                   ELSE "ok"
        IN  /\ goals' = IF err = "ok" THEN [goals EXCEPT ![id] = NoGoal] ELSE goals
            /\ edit' = [pc |-> IF err = "ok" THEN "add" ELSE "returned", id |-> id,
                        goal |-> FormGoal(id, form), orig |-> goals[id], err |-> err]
    /\ UNCHANGED <<watchCfg, goalsFile, loadPc, lastAdd>>
    /\ UNCHANGED <<undoStack, deleted, cursor, flatItems, viewOffset, uiErr, uiLast>>
    /\ UNCHANGED <<obsVars, obsCall, runVars, watchEmitted, homeVars, saveVars, aiVars, fair>>

\* updateGoal, lines 696-697: the goal built is added under the ID of the
\* goal edited, and the error of AddGoal is returned.
UpdateGoalAdd ==
    /\ ~crashed
    /\ edit.pc = "add"
    /\ AddGoalCall(edit.goal)
    /\ edit' = [edit EXCEPT !.pc = "returned", !.err = AddGoalError(edit.goal, edit.id)]
    /\ UNCHANGED <<watchCfg, goalsFile, loadPc>>
    /\ UNCHANGED <<undoStack, deleted, cursor, flatItems, viewOffset, uiErr, uiLast>>
    /\ UNCHANGED <<obsVars, obsCall, runVars, watchEmitted, homeVars, saveVars, aiVars, fair>>

\* The dialog is done with the edit.
UpdateGoalDone ==
    /\ edit.pc = "returned"
    /\ edit' = NoEdit
    /\ UNCHANGED <<goalVars, undoStack, deleted, cursor, flatItems, viewOffset, uiErr, uiLast>>
    /\ UNCHANGED <<obsVars, obsCall, runVars, watchEmitted, homeVars, saveVars, aiVars, fair>>

\* LoadGoals, lines 405-430: a missing file returns at once; otherwise the
\* map is replaced by an empty one under the lock.
LoadGoalsReset ==
    /\ ~crashed
    /\ loadPc = 0
    /\ IF goalsFile.exists
       THEN /\ goals' = [g \in GoalIDs |-> NoGoal]
            /\ loadPc' = 1
       ELSE /\ goals' = goals
            /\ loadPc' = 0
    /\ UNCHANGED <<watchCfg, goalsFile, lastAdd>>
    /\ UNCHANGED nonGoalVars

\* LoadGoals, lines 432-439: one round of the loop; nil entries are
\* skipped and an AddGoal error is only logged.
LoadGoalsAdd ==
    /\ ~crashed
    /\ loadPc >= 1
    /\ loadPc <= Len(goalsFile.entries)
    /\ IF goalsFile.entries[loadPc].nil
       THEN UNCHANGED <<goals, lastAdd>>
       ELSE AddGoalCall(goalsFile.entries[loadPc])
    /\ loadPc' = loadPc + 1
    /\ UNCHANGED <<watchCfg, goalsFile>>
    /\ UNCHANGED nonGoalVars

\* LoadGoals, line 441: the loop is over.
LoadGoalsReturn ==
    /\ ~crashed
    /\ loadPc = Len(goalsFile.entries) + 1
    /\ loadPc' = 0
    /\ UNCHANGED <<watchCfg, goals, goalsFile, lastAdd>>
    /\ UNCHANGED nonGoalVars

ValidGoal(id) == WatchGoalOf(id, <<" ", "d">>, <<1>>, WatchActionNotify, FALSE, 0)

\* The goal files of the model: none; and one that holds a goal for every
\* identifier (more than any limit), a repeated ID, a null entry and a
\* goal without sessions.
GoalFiles ==
    {[exists |-> FALSE, entries |-> <<>>],
     [exists |-> TRUE,
      entries |-> <<ValidGoal(1), ValidGoal(1), NilGoal, WatchGoalOf(2, <<"d">>, <<>>, "", FALSE, 0)>>
                  \o [i \in 1..(maxConcurrentGoals + 1) |-> ValidGoal(i)]]}

NeverAdded == [called |-> FALSE, err |-> "ok", atLimit |-> FALSE, fresh |-> FALSE, changed |-> FALSE,
               allSessions |-> FALSE]

(***************************************************************************)
(* WatchManager: Start, Stop and the goal workers                          *)
(***************************************************************************)

\* Bounds of the worker model: the goals the callers name, the Starts that
\* make a channel, and the triggers a goal counts.
NumWatchGoals == 1
MaxStarts == 2
MaxTriggerCount == 1

WatchGoalIDs == 1..NumWatchGoals

\* Bound of the evaluation model: its goals.
NumEvalGoals == 2

EvalGoalIDs == 1..NumEvalGoals
\* The goroutines that call Start and Stop.
WatchCallers == {"c1", "c2"}
WorkerIDs == (1..MaxStarts) \X (WatchGoalIDs \cup EvalGoalIDs)

\* The goals the callers of the worker model pass in.
WatchGoalInputs == {ValidGoal(id) : id \in WatchGoalIDs}

\* The goals the callers of the evaluation model pass in: the first
\* notifies, any other suggests.
EvalGoalInputs ==
    {[ValidGoal(id) EXCEPT !.Action = IF id = 1 THEN WatchActionNotify ELSE WatchActionSuggest] :
        id \in EvalGoalIDs}

NoWorker == [pc |-> "none", ch |-> 0, answer |-> [kind |-> "none", text |-> <<>>]]

IdleCall == [op |-> "none", ch |-> 0, todo |-> {}, afterStart |-> FALSE]

\* The context evaluateGoal hands to Chat: context.Background(), which has
\* no deadline (the empty set) and is never cancelled.
ContextBackground == [deadline |-> {}]

ChatContext == ContextBackground

\* PauseGoal on a goal map: an unknown ID is an error and changes nothing.
PausedGoals(gs, id) == IF gs[id].present THEN [gs EXCEPT ![id].Paused = TRUE] ELSE gs

\* The mutant of ResumedGoals: the resumed goal starts counting anew.
ResumedGoals_Recount(gs, id) ==
    IF gs[id].present THEN [gs EXCEPT ![id].Paused = FALSE, ![id].TriggerCount = 0] ELSE gs

\* ResumeGoal on a goal map: an unknown ID is an error and changes nothing.
ResumedGoals(gs, id) == IF gs[id].present THEN [gs EXCEPT ![id].Paused = FALSE] ELSE gs

PauseGoalCall(id) == goals' = PausedGoals(goals, id)

PauseGoal(id) ==
    /\ ~crashed
    /\ PauseGoalCall(id)
    /\ UNCHANGED <<watchCfg, goalsFile, loadPc, lastAdd>>
    /\ UNCHANGED nonGoalVars

ResumeGoal(id) ==
    /\ ~crashed
    /\ goals' = ResumedGoals(goals, id)
    /\ UNCHANGED <<watchCfg, goalsFile, loadPc, lastAdd>>
    /\ UNCHANGED nonGoalVars

\* Time passes: more than Timeout has gone by since the goal was created.
GoalTimesOut(id) ==
    /\ ~crashed
    /\ goals[id].present
    /\ ~goals[id].Expired
    /\ goals' = [goals EXCEPT ![id].Expired = TRUE]
    /\ UNCHANGED <<watchCfg, goalsFile, loadPc, lastAdd>>
    /\ UNCHANGED nonGoalVars

\* Start, lines 176-186: a manager that has a channel is left alone;
\* otherwise a channel is made and the goals are collected, under w.mu.
StartBegin(c) ==
    /\ ~crashed
    /\ callPc[c] = "idle"
    /\ IF stopCh # 0
       THEN /\ callLocal' = [callLocal EXCEPT ![c] = IdleCall]
            /\ UNCHANGED <<stopCh, chanCount, callPc>>
       ELSE /\ chanCount < MaxStarts
            /\ chanCount' = chanCount + 1
            /\ stopCh' = chanCount + 1
            /\ callLocal' = [callLocal EXCEPT ![c] =
                    [op |-> "Start", ch |-> chanCount + 1,
                     todo |-> {g \in WatchGoalIDs \cup EvalGoalIDs : goals[g].present}, afterStart |-> FALSE]]
            /\ callPc' = [callPc EXCEPT ![c] = "spawn"]
    /\ UNCHANGED <<closedChs, wg, workers, startDone, goals, crashed>>
    /\ UNCHANGED nonRunVars

\* Start, lines 188-191: one round of the loop, wg.Add(1) and the go
\* statement; the goals come in the order of a map iteration.
StartSpawn(c) ==
    /\ ~crashed
    /\ callPc[c] = "spawn"
    /\ \E g \in callLocal[c].todo :
        /\ workers' = [workers EXCEPT ![<<callLocal[c].ch, g>>] = [NoWorker EXCEPT !.pc = "spawned"]]
        /\ callLocal' = [callLocal EXCEPT ![c].todo = @ \ {g}]
    /\ wg' = wg + 1
    /\ UNCHANGED <<stopCh, chanCount, closedChs, callPc, startDone, goals, crashed>>
    /\ UNCHANGED nonRunVars

\* Start, line 192: the loop is over.
StartReturn(c) ==
    /\ ~crashed
    /\ callPc[c] = "spawn"
    /\ callLocal[c].todo = {}
    /\ callPc' = [callPc EXCEPT ![c] = "idle"]
    /\ startDone' = startDone \cup {callLocal[c].ch}
    /\ UNCHANGED <<stopCh, chanCount, closedChs, wg, workers, callLocal, goals, crashed>>
    /\ UNCHANGED nonRunVars

\* Stop, lines 196-202: without a channel there is nothing to stop;
\* otherwise the channel is closed under w.mu.  Closing a closed channel
\* panics, in a goroutine that nothing recovers.
StopBegin(c) ==
    /\ ~crashed
    /\ callPc[c] = "idle"
    /\ IF stopCh = 0
       THEN /\ callLocal' = [callLocal EXCEPT ![c] = IdleCall]
            /\ UNCHANGED <<closedChs, callPc, crashed>>
       ELSE IF stopCh \in closedChs
       THEN /\ crashed' = TRUE
            /\ UNCHANGED <<closedChs, callPc, callLocal>>
       ELSE /\ closedChs' = closedChs \cup {stopCh}
            /\ callLocal' = [callLocal EXCEPT ![c] =
                    [op |-> "Stop", ch |-> stopCh, todo |-> {},
                     afterStart |-> \A d \in WatchCallers : callPc[d] # "spawn"]]
            /\ callPc' = [callPc EXCEPT ![c] = "wait"]
            /\ UNCHANGED crashed
    /\ UNCHANGED <<stopCh, chanCount, wg, workers, startDone, goals>>
    /\ UNCHANGED nonRunVars

\* The mutant of WaitReturnsAtOnce: Stop does not join the workers.
WaitReturnsAtOnce_NoJoin(counter) == TRUE

\* sync.WaitGroup.Wait returns at once when the counter is zero.
WaitReturnsAtOnce(counter) == counter = 0

\* Stop, line 204: w.wg.Wait() returns, or blocks until the counter
\* reaches zero.
StopWait(c) ==
    /\ ~crashed
    /\ callPc[c] = "wait"
    /\ callPc' = [callPc EXCEPT ![c] = IF WaitReturnsAtOnce(wg) THEN "clear" ELSE "blocked"]
    /\ UNCHANGED <<stopCh, chanCount, closedChs, wg, workers, callLocal, startDone, goals, crashed>>
    /\ UNCHANGED nonRunVars

\* Stop, line 204: the woken Wait returns; a counter that is no longer
\* zero is a misuse, for which the runtime panics ("WaitGroup is reused
\* before previous Wait has returned").
StopWoken(c) ==
    /\ ~crashed
    /\ callPc[c] = "woken"
    /\ IF wg = 0
       THEN callPc' = [callPc EXCEPT ![c] = "clear"] /\ UNCHANGED crashed
       ELSE crashed' = TRUE /\ UNCHANGED callPc
    /\ UNCHANGED <<stopCh, chanCount, closedChs, wg, workers, callLocal, startDone, goals>>
    /\ UNCHANGED nonRunVars

\* Stop, lines 206-209: w.stopCh = nil under w.mu, and Stop returns.
StopClear(c) ==
    /\ ~crashed
    /\ callPc[c] = "clear"
    /\ stopCh' = 0
    /\ callPc' = [callPc EXCEPT ![c] = "idle"]
    /\ UNCHANGED <<chanCount, closedChs, wg, workers, callLocal, startDone, goals, crashed>>
    /\ UNCHANGED nonRunVars

\* The deferred w.wg.Done() of runGoalWorker (line 305): the counter
\* drops, and at zero the blocked Waits are woken.
WorkerExit(w) ==
    /\ workers' = [workers EXCEPT ![w] = [NoWorker EXCEPT !.pc = "exited"]]
    /\ wg' = wg - 1
    /\ callPc' = IF wg = 1 THEN [c \in WatchCallers |-> IF callPc[c] = "blocked" THEN "woken" ELSE callPc[c]] ELSE callPc

\* runGoalWorker, lines 307-320: the worker reads w.stopCh, and returns if
\* it is nil.
WorkerBegin(w) ==
    /\ ~crashed
    /\ workers[w].pc = "spawned"
    /\ IF stopCh = 0
       THEN WorkerExit(w)
       ELSE /\ workers' = [workers EXCEPT ![w] = [NoWorker EXCEPT !.pc = "select", !.ch = stopCh]]
            /\ UNCHANGED <<wg, callPc>>
    /\ UNCHANGED <<stopCh, chanCount, closedChs, callLocal, startDone, goals, crashed>>
    /\ UNCHANGED nonRunVars

\* runGoalWorker, lines 324-325: the select takes the closed channel.
WorkerStopped(w) ==
    /\ ~crashed
    /\ workers[w].pc = "select"
    /\ workers[w].ch \in closedChs
    /\ WorkerExit(w)
    /\ UNCHANGED <<stopCh, chanCount, closedChs, callLocal, startDone, goals, crashed>>
    /\ UNCHANGED nonRunVars

\* The reply of the provider holds the tag "<NoComment>" or not; a reply
\* is a sequence of words.
NoCommentTag == "<NoComment>"

Replies == {<<NoCommentTag>>, <<"text", NoCommentTag, "text">>, <<"text">>, <<>>}

\* How a call of evaluateGoal ends: an error of Chat, a panic (of the
\* provider or of the observer), or a reply.
NoAnswer == [kind |-> "none", text |-> <<>>]
ChatError == [kind |-> "error", text |-> <<>>]
EvalPanic == [kind |-> "panic", text |-> <<>>]
ReplyOf(text) == [kind |-> "reply", text |-> text]
ChatAnswers == {ChatError, EvalPanic} \cup {ReplyOf(r) : r \in Replies}

\* The mutant of ContainsNoComment: only a reply that begins with the tag.
ContainsNoComment_Prefix(reply) == Len(reply) > 0 /\ reply[1] = NoCommentTag

\* strings.Contains(response, "<NoComment>"), line 275.
ContainsNoComment(reply) == \E i \in 1..Len(reply) : reply[i] = NoCommentTag

\* The evaluation goes on to lines 279-300: Chat returned a reply, and the
\* reply does not hold the tag.
Triggers(answer) == answer.kind = "reply" /\ ~ContainsNoComment(answer.text)

\* The mutant of TickStep: the timeout is not looked at.
TickStep_NoTimeout(goal, observation) ==
    IF goal.Paused THEN "select"
    ELSE IF observation = "some" THEN "chat"
    ELSE IF observation = "panic" THEN "done"
    ELSE "select"

\* runGoalWorker, lines 333-357: where a tick on a goal that exists leads.
\* A paused goal is skipped, one past its timeout is to be paused (Timeout
\* is positive and CreatedAt is set, by AddGoal); any other is evaluated:
\* with a latest observation the provider is called, without any the
\* evaluation returns, and a panic of the observer ends it.
TickStep(goal, observation) ==
    IF goal.Paused THEN "select"
    ELSE IF goal.Expired THEN "pause"
    ELSE IF observation = "some" THEN "chat"
    ELSE IF observation = "panic" THEN "done"
    ELSE "select"

\* runGoalWorker, lines 326-357, up to the provider call: the select takes
\* the ticker (it may, even when the channel is closed as well).  The goal
\* is looked up under the read lock: a goal that is gone ends the worker.
\* Any other goal goes the way of TickStep (evaluateGoal, lines 212-270).
WorkerTickFrom(w, observations) ==
    /\ ~crashed
    /\ workers[w].pc = "select"
    /\ IF ~goals[w[2]].present
       THEN WorkerExit(w)
       ELSE /\ \E observation \in observations :
                workers' = [workers EXCEPT ![w].pc = TickStep(goals[w[2]], observation),
                                           ![w].answer = IF TickStep(goals[w[2]], observation) = "done"
                                                         THEN EvalPanic ELSE NoAnswer]
            /\ UNCHANGED <<wg, callPc>>
    /\ UNCHANGED <<stopCh, chanCount, closedChs, callLocal, startDone, goals, crashed>>
    /\ UNCHANGED nonRunVars

WorkerTick(w) == WorkerTickFrom(w, {"none", "some"})

\* runGoalWorker, lines 342-345: w.PauseGoal(currentID).
WorkerPause(w) ==
    /\ ~crashed
    /\ workers[w].pc = "pause"
    /\ PauseGoalCall(w[2])
    /\ workers' = [workers EXCEPT ![w].pc = "select"]
    /\ UNCHANGED <<stopCh, chanCount, closedChs, wg, callPc, callLocal, startDone, crashed>>
    /\ UNCHANGED nonRunVars

\* evaluateGoal, line 270: the provider answers the Chat call (the model
\* stops the replies that trigger at MaxTriggerCount).
ChatReturnsFrom(w, answers) ==
    /\ ~crashed
    /\ workers[w].pc = "chat"
    /\ \E answer \in answers :
        /\ Triggers(answer) /\ goals[w[2]].present => goals[w[2]].TriggerCount < MaxTriggerCount
        /\ workers' = [workers EXCEPT ![w].pc = "done", ![w].answer = answer]
    /\ UNCHANGED <<stopCh, chanCount, closedChs, wg, callPc, callLocal, startDone, goals, crashed>>
    /\ UNCHANGED nonRunVars

ChatReturns(w) == ChatReturnsFrom(w, ChatAnswers)

\* The mutant of CountTrigger: the count alone.
CountTrigger_NoTime(g) == IF goals[g].present THEN [goals EXCEPT ![g].TriggerCount = @ + 1] ELSE goals

\* evaluateGoal, lines 281-286, under w.mu: the goal of that ID, if it
\* still exists, counts the trigger and notes its time.
CountTrigger(g) ==
    IF goals[g].present
    THEN [goals EXCEPT ![g].TriggerCount = @ + 1, ![g].LastTriggered = TimeNow]
    ELSE goals

\* evaluateGoal, lines 287-298: the action is that of the goal, notify for
\* a goal that is gone, and either action writes one line to the log; no
\* notification entry is raised.
TriggerEmission(g) ==
    [goal |-> g,
     log |-> IF goals[g].present /\ goals[g].Action = WatchActionSuggest
             THEN "triggered (suggest)" ELSE "triggered (notify)",
     notification |-> FALSE]

\* The mutant of PanicEnds: a panic that nothing recovers ends the process.
PanicEnds_Process(answer) == answer.kind = "panic"

\* runGoalWorker, lines 348-353: the deferred recover takes the panic of
\* an evaluation, so that no answer ends the process.
PanicEnds(answer) == FALSE

\* runGoalWorker, line 351: the line logged for a recovered panic.
PanicEmission(g) ==
    [goal |-> g, log |-> "WATCH WORKER PANIC (recovered)", notification |-> FALSE]

\* evaluateGoal, lines 271-300, and the end of the call in runGoalWorker
\* (lines 348-357): a recovered panic is logged, a reply with the tag does
\* nothing, any other reply counts the trigger and emits the action (the
\* line logged for an error of Chat is left out).
\* The worker goes back to its select.
EvaluateReply(w) ==
    /\ ~crashed
    /\ workers[w].pc = "done"
    /\ crashed' = PanicEnds(workers[w].answer)
    /\ goals' = IF Triggers(workers[w].answer) THEN CountTrigger(w[2]) ELSE goals
    /\ watchEmitted' =
        IF Triggers(workers[w].answer) THEN watchEmitted \cup {TriggerEmission(w[2])}
        ELSE IF workers[w].answer.kind = "panic"
        THEN watchEmitted \cup {PanicEmission(w[2])}
        ELSE watchEmitted
    /\ workers' = [workers EXCEPT ![w].pc = "select", ![w].answer = NoAnswer]
    /\ UNCHANGED <<stopCh, chanCount, closedChs, wg, callPc, callLocal, startDone>>
    /\ UNCHANGED nonWorkerVars

\* No Start yet: no channel, no worker.
InitRunIdle ==
    /\ stopCh = 0
    /\ chanCount = 0
    /\ closedChs = {}
    /\ wg = 0
    /\ watchEmitted = {}
    /\ workers = [w \in WorkerIDs |-> NoWorker]
    /\ callPc = [c \in WatchCallers |-> "idle"]
    /\ callLocal = [c \in WatchCallers |-> IdleCall]
    /\ startDone = {}

(***************************************************************************)
(* Home: the status scheduler (statusWorker) and the log workers           *)
(***************************************************************************)

\* Round-robin batch of processStatusUpdate, and the least visibleHeight
\* that triggerStatusUpdate sends.
batchSize == 2
MinVisibleHeight == 5

\* Bounds of the scheduler model: the sessions, and the staleness counted.
NumSessions == 3
MaxAge == 3
WideSessions == 8
FairSessions == 50
FairVisible == 10
FairTicks == 5

\* h.instances holds the sessions 1..N in this order.
Instances == 1..Len(status)

\* What a pane shows, as UpdateStatus reads it: the tool is working, it
\* awaits input, neither; or a pane on which UpdateStatus panics.
Panes == {"working", "prompt", "quiet", "broken"}

UpdatePanics(s) == pane[s] = "broken"

\* Instance.UpdateStatus: the status inferred from the pane.  A waiting
\* session becomes idle only through Acknowledge; new work clears the
\* acknowledgment.
StatusAfterUpdate(s, ack) ==
    CASE pane[s] = "working" -> "running"
      [] pane[s] = "prompt" -> IF ack THEN "idle" ELSE "waiting"
      [] OTHER -> IF status[s] = "waiting" /\ ~ack THEN "waiting" ELSE "idle"

AckedAfterUpdate(s, ack) == IF pane[s] = "working" THEN FALSE ELSE ack

\* UpdateStatus has returned on every session of done.
StatusesAfter(done) == [s \in Instances |-> IF s \in done THEN StatusAfterUpdate(s, acked[s]) ELSE status[s]]

AckedAfter(done) == [s \in Instances |-> IF s \in done THEN AckedAfterUpdate(s, acked[s]) ELSE acked[s]]

Range(seq) == {seq[i] : i \in 1..Len(seq)}

\* The calls of UpdateStatus that a loop over plan makes: it ends with the
\* first call that panics.  FirstPanic is the position of that call, or 0.
FirstPanic(plan) ==
    IF \E i \in 1..Len(plan) : UpdatePanics(plan[i])
    THEN CHOOSE i \in 1..Len(plan) : UpdatePanics(plan[i]) /\ \A j \in 1..(i - 1) : ~UpdatePanics(plan[j])
    ELSE 0

Invoked(plan) == IF FirstPanic(plan) = 0 THEN plan ELSE SubSeq(plan, 1, FirstPanic(plan))

Returned(plan) == IF FirstPanic(plan) = 0 THEN plan ELSE SubSeq(plan, 1, FirstPanic(plan) - 1)

\* The sessions of the plan that are not idle and that the loop, ended by
\* a panic, never reached.
NotReached(plan) ==
    IF FirstPanic(plan) = 0 THEN {}
    ELSE {s \in {plan[i] : i \in (FirstPanic(plan) + 1)..Len(plan)} : status[s] # "idle"}

\* backgroundStatusUpdate, lines 136-143: every instance, in order.
AllInstancesPlan == [i \in Instances |-> i]

\* processStatusUpdate, lines 369-374: the IDs in the viewport.
VisibleIDs(req) ==
    {req.flatItemIDs[i + 1] : i \in {j \in 0..(Len(req.flatItemIDs) - 1) :
        j >= req.viewOffset /\ j < req.viewOffset + req.visibleHeight}}

\* processStatusUpdate, lines 382-391: the visible instances, in order.
VisiblePlan(req) == SelectSeq(AllInstancesPlan, LAMBDA s : s \in VisibleIDs(req))

\* The mutant of RoundRobinPlan: the sessions updated in this tick are not
\* skipped.
RECURSIVE RoundRobinPlan_Again(_, _, _, _)
RoundRobinPlan_Again(i, remaining, startIdx, updated) ==
    IF i >= Len(status) \/ remaining <= 0 THEN <<>>
    ELSE LET idx == (startIdx + i) % Len(status)
             inst == idx + 1
         IN  IF status[inst] = "idle"
             THEN RoundRobinPlan_Again(i + 1, remaining, startIdx, updated)
             ELSE <<inst>> \o RoundRobinPlan_Again(i + 1, remaining - 1, startIdx, updated)

\* processStatusUpdate, lines 396-422: from the cursor on, the instances
\* that were not updated in this tick and are not idle, until the batch
\* is used up.
RECURSIVE RoundRobinPlan(_, _, _, _)
RoundRobinPlan(i, remaining, startIdx, updated) ==
    IF i >= Len(status) \/ remaining <= 0 THEN <<>>
    ELSE LET idx == (startIdx + i) % Len(status)
             inst == idx + 1
         IN  IF inst \in updated \/ status[inst] = "idle"
             THEN RoundRobinPlan(i + 1, remaining, startIdx, updated)
             ELSE <<inst>> \o RoundRobinPlan(i + 1, remaining - 1, startIdx, updated)

\* The whole plan of processStatusUpdate for a request.
TriggerPlan(req) ==
    VisiblePlan(req) \o RoundRobinPlan(0, batchSize, statusUpdateIndex, Range(VisiblePlan(req)))

\* h.statusUpdateIndex.Store((idx + 1) % instanceCount) after every
\* round-robin update that returned (line 421).
IndexAfter(req) ==
    LET done == Returned(TriggerPlan(req))
        nVisible == Len(VisiblePlan(req))
    IN  IF Len(done) > nVisible THEN done[Len(done)] % Len(status) ELSE statusUpdateIndex

\* The request triggerStatusUpdate builds from the UI state.
RequestOf(v) == [viewOffset |-> v.viewOffset, visibleHeight |-> v.visibleHeight, flatItemIDs |-> v.flatItemIDs]

\* The staleness of the probe after a tick that called UpdateStatus on the
\* sessions of invoked.
AgeAfterTick(invoked) ==
    IF probe = 0 \/ probe \in invoked THEN 0
    ELSE IF status[probe] = "idle" THEN 0
    ELSE Min(age + 1, MaxAge)

AgeAfterCall(s) == IF s = probe THEN 0 ELSE age

\* backgroundStatusUpdate, lines 145-148, processStatusUpdate, lines
\* 424-428: the cache is invalidated if a status changed; a tick that a
\* panicking UpdateStatus ended does not reach these lines.
ValidAfter(plan, after) ==
    IF FirstPanic(plan) # 0 THEN cachedValid
    ELSE IF after # status THEN FALSE ELSE cachedValid

NoCounts == [st \in {} |-> 0]

NoOp == [op |-> "none"]

\* The ticks are not counted.
NoFair == [on |-> FALSE, ticks |-> 0, counts |-> <<>>]

\* The count after a tick that called UpdateStatus on the sessions of
\* calls, for the first FairTicks ticks of a counted run.
FairAfter(calls) ==
    IF fair.on /\ fair.ticks < FairTicks
    THEN [fair EXCEPT !.ticks = @ + 1,
                      !.counts = [s \in DOMAIN fair.counts |->
                                    fair.counts[s] + Cardinality({i \in 1..Len(calls) : calls[i] = s})]]
    ELSE fair

\* The signal of the ack file, if it names a waiting session: as the tick
\* begins and, in a tick that runs the sync, as the sync reads the file.
WaitingSignal == IF ackSignal \in Instances /\ status[ackSignal] = "waiting" THEN ackSignal ELSE 0

NoTick == [kind |-> "none", calls |-> <<>>, skipped |-> {}, synced |-> FALSE,
           sig |-> 0, ackRead |-> FALSE, inEntries |-> FALSE, boundAfter |-> FALSE, syncCall |-> 0]

TickOf(kind, plan) ==
    [kind |-> kind, calls |-> Invoked(plan), skipped |-> NotReached(plan), synced |-> FALSE,
     sig |-> WaitingSignal, ackRead |-> FALSE, inEntries |-> FALSE, boundAfter |-> FALSE, syncCall |-> 0]

\* statusWorker, case <-ticker.C: backgroundStatusUpdate up to its call of
\* syncNotificationsBackground.  Without instances it returns at once; a
\* panic of UpdateStatus ends it in the deferred recover of line 102.
TickerFires ==
    /\ syncPc["bg"] = "idle"
    /\ status' = StatusesAfter(Range(Returned(AllInstancesPlan)))
    /\ acked' = AckedAfter(Range(Returned(AllInstancesPlan)))
    /\ lastTick' = TickOf("ticker", AllInstancesPlan)
    /\ age' = AgeAfterTick(Range(Invoked(AllInstancesPlan)))
    /\ syncPc' = [syncPc EXCEPT !["bg"] =
            IF Len(status) = 0 \/ FirstPanic(AllInstancesPlan) # 0 THEN "idle" ELSE "sync"]
    /\ fair' = FairAfter(Invoked(AllInstancesPlan))
    /\ cachedValid' = ValidAfter(AllInstancesPlan, status')
    /\ lockedCalls' = {}
    /\ UNCHANGED cachedCounts
    /\ UNCHANGED <<pane, view, statusUpdateIndex, statusTrigger, notificationsEnabled, ackSignal,
                   entries, lastBarText, bar, boundKeys, syncLocal, probe>>
    /\ UNCHANGED nonTickVars

\* statusWorker, case req := <-h.statusTrigger: processStatusUpdate under
\* the recover of lines 52-59.
TriggerReceived ==
    /\ syncPc["bg"] = "idle"
    /\ statusTrigger # <<>>
    /\ LET req == Head(statusTrigger)
       IN  /\ status' = StatusesAfter(Range(Returned(TriggerPlan(req))))
           /\ acked' = AckedAfter(Range(Returned(TriggerPlan(req))))
           /\ statusUpdateIndex' = IF Len(status) = 0 THEN statusUpdateIndex ELSE IndexAfter(req)
           /\ lastTick' = TickOf("trigger", TriggerPlan(req))
           /\ age' = AgeAfterTick(Range(Invoked(TriggerPlan(req))))
           /\ fair' = FairAfter(Invoked(TriggerPlan(req)))
           /\ cachedValid' = IF Len(status) = 0 THEN cachedValid ELSE ValidAfter(TriggerPlan(req), status')
    /\ lockedCalls' = {}
    /\ UNCHANGED cachedCounts
    /\ statusTrigger' = <<>>
    /\ UNCHANGED <<pane, view, notificationsEnabled, ackSignal,
                   entries, lastBarText, bar, boundKeys, syncPc, syncLocal, probe>>
    /\ UNCHANGED nonTickVars

\* The buffer of h.statusTrigger.
statusTriggerCap == 1

\* The mutant of TrySend: the channel takes every request.
TrySend_Queue(ch, req) == Append(ch, req)

\* triggerStatusUpdate, lines 333-338: select with a default case. The
\* request is sent if the buffer has room and dropped if not.
TrySend(ch, req) == IF Len(ch) < statusTriggerCap THEN Append(ch, req) ELSE ch

\* triggerStatusUpdate: the request is built from the UI state and sent
\* without blocking.
TriggerStatusUpdate ==
    /\ statusTrigger' = TrySend(statusTrigger, RequestOf(view))
    /\ UNCHANGED <<status, acked, pane, view, statusUpdateIndex, notificationsEnabled, ackSignal,
                   entries, lastBarText, bar, boundKeys, syncPc, syncLocal, lastTick, probe, age>>
    /\ UNCHANGED nonHomeVars

\* logWorker: UpdateStatus on the instance of a log event, under the
\* recover of lines 86-93.
LogWorkerUpdate(s) ==
    /\ s \in Instances
    /\ status' = IF UpdatePanics(s) THEN status ELSE StatusesAfter({s})
    /\ acked' = IF UpdatePanics(s) THEN acked ELSE AckedAfter({s})
    /\ age' = AgeAfterCall(s)
    /\ UNCHANGED <<pane, view, statusUpdateIndex, statusTrigger, notificationsEnabled, ackSignal,
                   entries, lastBarText, bar, boundKeys, syncPc, syncLocal, lastTick, probe>>
    /\ UNCHANGED nonHomeVars

\* The tool of session s goes on: its pane shows p (a pane on which
\* UpdateStatus panics stays one).
PaneChanges(s, p) ==
    /\ s \in Instances
    /\ pane[s] \notin {p, "broken"}
    /\ pane' = [pane EXCEPT ![s] = p]
    /\ UNCHANGED <<status, acked, view, statusUpdateIndex, statusTrigger, notificationsEnabled, ackSignal,
                   entries, lastBarText, bar, boundKeys, syncPc, syncLocal, lastTick, probe, age>>
    /\ UNCHANGED nonHomeVars

(***************************************************************************)
(* Home: the notification sync (background worker and foreground UI)       *)
(***************************************************************************)

\* Entries shown at most, and so the digit keys 1..MaxShown.
MaxShown == 6
Keys == 1..MaxShown

\* Bound of the notification model: the sessions.
NotifySessions == 2

\* The worker's sync and the UI's.
SyncProcs == {"bg", "fg"}

\* The name of the multiplexer session of an instance.
TmuxNameOf(sid) == <<"agentdeck", sid>>

\* bindingKey: sessionID + ":" + currentTmuxName (line 285).
BindingKey(sid, tmuxName) == <<sid, ":", tmuxName>>

NoBinding == <<>>

\* SyncFromInstances: a waiting session has an entry, any other has none;
\* the sessions that wait since the last sync come first, the entries that
\* persist keep their order, and at most MaxShown are kept.  The key of an
\* entry is its position.
SyncFromInstances(old) ==
    LET kept == SelectSeq(old, LAMBDA s : s \in Instances /\ status[s] = "waiting")
        fresh == SelectSeq(AllInstancesPlan, LAMBDA s : status[s] = "waiting" /\ s \notin Range(old))
        all == fresh \o kept
    IN  SubSeq(all, 1, Min(Len(all), MaxShown))

\* FormatBar: the text of the bar, "" (the empty sequence) without entries.
FormatBar(es) == [k \in 1..Len(es) |-> <<"[", k, "]", es[k]>>]

\* updateKeyBindings, lines 291-307, on a snapshot of the entries: every
\* key of the snapshot is bound to its session, every other key unbound.
Reconciled(snap) ==
    [k \in Keys |-> IF k <= Len(snap) THEN BindingKey(snap[k], TmuxNameOf(snap[k])) ELSE NoBinding]

IdleSync == [sig |-> 0, text |-> <<>>, snap |-> <<>>]

\* The tick of the worker notes what its sync did; the UI has no tick.
NoteTick(p, tick) == IF p = "bg" THEN tick ELSE lastTick

\* syncNotificationsBackground, lines 164-208: nothing without
\* notifications; otherwise the ack signal is read and cleared, and the
\* session it names is acknowledged and updated.  A panic of that
\* UpdateStatus ends the sync in the recover of line 158 (and the read lock
\* of line 192 stays held).
SyncAck(p) ==
    /\ syncPc[p] = "sync"
    /\ IF ~notificationsEnabled
       THEN /\ syncPc' = [syncPc EXCEPT ![p] = "idle"]
            /\ lockedCalls' = {}
            /\ UNCHANGED <<status, acked, ackSignal, syncLocal, lastTick, age>>
       ELSE /\ ackSignal' = 0
            /\ lockedCalls' = {ackSignal} \cap Instances
            /\ lastTick' = NoteTick(p, [lastTick EXCEPT !.synced = TRUE, !.sig = WaitingSignal,
                                        !.ackRead = WaitingSignal # 0,
                                        !.syncCall = IF ackSignal \in Instances THEN ackSignal ELSE 0])
            /\ syncLocal' = [syncLocal EXCEPT ![p].sig = ackSignal]
            /\ IF ackSignal \in Instances
               THEN /\ acked' = [acked EXCEPT ![ackSignal] = IF UpdatePanics(ackSignal) THEN TRUE ELSE AckedAfterUpdate(ackSignal, TRUE)]
                    /\ status' = [status EXCEPT ![ackSignal] = IF UpdatePanics(ackSignal) THEN @ ELSE StatusAfterUpdate(ackSignal, TRUE)]
                    /\ age' = AgeAfterCall(ackSignal)
                    /\ syncPc' = [syncPc EXCEPT ![p] = IF UpdatePanics(ackSignal) THEN "idle" ELSE "derive"]
               ELSE /\ UNCHANGED <<status, acked, age>>
                    /\ syncPc' = [syncPc EXCEPT ![p] = "derive"]
    /\ UNCHANGED <<pane, view, statusUpdateIndex, statusTrigger, notificationsEnabled,
                   entries, lastBarText, bar, boundKeys, probe>>
    /\ UNCHANGED nonSyncVars

\* syncNotificationsBackground, line 230: barText != h.lastBarText.
BarChanged(barText, last) == barText # last

\* syncNotificationsBackground, lines 223-246: the entries are derived from
\* the instances, the bar is formatted and compared with the last text
\* under lastBarTextMu.
SyncDerive(p) ==
    /\ syncPc[p] = "derive"
    /\ entries' = SyncFromInstances(entries)
    /\ lastTick' = NoteTick(p, [lastTick EXCEPT !.inEntries = lastTick.sig \in Range(entries')])
    /\ IF BarChanged(FormatBar(entries'), lastBarText)
       THEN /\ lastBarText' = FormatBar(entries')
            /\ syncLocal' = [syncLocal EXCEPT ![p].text = FormatBar(entries')]
            /\ syncPc' = [syncPc EXCEPT ![p] = "write"]
       ELSE /\ UNCHANGED <<lastBarText, syncLocal>>
            /\ syncPc' = [syncPc EXCEPT ![p] = "keys"]
    /\ UNCHANGED <<status, acked, pane, view, statusUpdateIndex, statusTrigger, notificationsEnabled,
                   ackSignal, bar, boundKeys, probe, age>>
    /\ UNCHANGED nonHomeVars

\* syncNotificationsBackground, lines 234-243: the changed text is written
\* to the status bar, after lastBarTextMu was released.
SyncWrite(p) ==
    /\ syncPc[p] = "write"
    /\ bar' = syncLocal[p].text
    /\ syncLocal' = [syncLocal EXCEPT ![p].text = <<>>]
    /\ syncPc' = [syncPc EXCEPT ![p] = "keys"]
    /\ UNCHANGED <<status, acked, pane, view, statusUpdateIndex, statusTrigger, notificationsEnabled,
                   ackSignal, entries, lastBarText, boundKeys, lastTick, probe, age>>
    /\ UNCHANGED nonHomeVars

\* updateKeyBindings, lines 257-288: the entries are fetched and the
\* bindings collected, before boundKeysMu is taken.
SyncKeys(p) ==
    /\ syncPc[p] = "keys"
    /\ syncLocal' = [syncLocal EXCEPT ![p].snap = entries]
    /\ syncPc' = [syncPc EXCEPT ![p] = "reconcile"]
    /\ UNCHANGED <<status, acked, pane, view, statusUpdateIndex, statusTrigger, notificationsEnabled,
                   ackSignal, entries, lastBarText, bar, boundKeys, lastTick, probe, age>>
    /\ UNCHANGED nonHomeVars

\* updateKeyBindings, lines 291-307, under boundKeysMu.
SyncReconcile(p) ==
    /\ syncPc[p] = "reconcile"
    /\ boundKeys' = Reconciled(syncLocal[p].snap)
    /\ lastTick' = NoteTick(p, [lastTick EXCEPT !.boundAfter =
            lastTick.sig # 0 /\ \E k \in Keys : boundKeys'[k] = BindingKey(lastTick.sig, TmuxNameOf(lastTick.sig))])
    /\ syncLocal' = [syncLocal EXCEPT ![p] = IdleSync]
    /\ syncPc' = [syncPc EXCEPT ![p] = "idle"]
    /\ UNCHANGED <<status, acked, pane, view, statusUpdateIndex, statusTrigger, notificationsEnabled,
                   ackSignal, entries, lastBarText, bar, probe, age>>
    /\ UNCHANGED nonHomeVars

\* The UI runs its notification sync (on its own tick).
ForegroundSync ==
    /\ syncPc["fg"] = "idle"
    /\ syncPc' = [syncPc EXCEPT !["fg"] = "sync"]
    /\ UNCHANGED <<status, acked, pane, view, statusUpdateIndex, statusTrigger, notificationsEnabled,
                   ackSignal, entries, lastBarText, bar, boundKeys, syncLocal, lastTick, probe, age>>
    /\ UNCHANGED nonHomeVars

\* The user presses a bound digit key: the binding writes the ID of its
\* session to the ack signal file.
UserPressesKey(k) ==
    /\ boundKeys[k] # NoBinding
    /\ ackSignal' = boundKeys[k][1]
    /\ UNCHANGED <<status, acked, pane, view, statusUpdateIndex, statusTrigger, notificationsEnabled,
                   entries, lastBarText, bar, boundKeys, syncPc, syncLocal, lastTick, probe, age>>
    /\ UNCHANGED nonHomeVars

\* Bound of the cache model: the sessions.
CacheSessions == 2

\* The statuses that are counted.
Statuses == {"running", "waiting", "idle"}

\* The counts of the statuses of the instances.
CountsOf(st) == [x \in Statuses |-> Cardinality({s \in DOMAIN st : st[s] = x})]

\* getStatusCounts: the cached counts while the cache is valid; otherwise
\* the instances are counted under the read lock and the cache is marked
\* valid.
GetStatusCounts ==
    /\ ~cachedValid
    /\ cachedCounts' = CountsOf(status)
    /\ cachedValid' = TRUE
    /\ UNCHANGED <<status, acked, pane, view, statusUpdateIndex, statusTrigger, notificationsEnabled, ackSignal,
                   entries, lastBarText, bar, boundKeys, syncPc, syncLocal, lastTick, probe, age, lockedCalls>>
    /\ UNCHANGED <<nonTickVars, fair>>

(***************************************************************************)
(* Package ai: WithRetry (retry.go) and the providers' Chat                *)
(***************************************************************************)
NumFnErrors == 2

\* What one call of the wrapped function does: it returns nil, it returns
\* one of its errors, or it panics.
FnErrors == {<<"error", n>> : n \in 1..NumFnErrors}
FnNil == <<"nil", 0>>
FnPanic == <<"panic", 0>>
FnResults == {FnNil, FnPanic} \cup FnErrors

\* The mutant of delays: a linear backoff.
delays_Linear == <<1 * Second, 2 * Second, 3 * Second>>

\* retry.go, lines 12-16.
delays == <<1 * Second, 2 * Second, 4 * Second>>

NoResult == [kind |-> "none", wraps |-> FnNil]

IdleRetry == [pc |-> "idle", attempt |-> 0, outcomes |-> <<>>, slept |-> <<>>, result |-> NoResult]

\* WithRetry is called: var err error, attempt := 0 (lines 18-19).
WithRetryStart ==
    /\ retry.pc = "idle"
    /\ retry' = [IdleRetry EXCEPT !.pc = "call"]
    /\ UNCHANGED chat
    /\ UNCHANGED <<obsVars, obsCall, goalVars, runVars, watchEmitted, homeVars, saveVars, fair, uiVars>>

\* Lines 20-24: before every attempt but the first, time.Sleep(delays[attempt-1]).
RetrySleep ==
    /\ retry.pc = "sleep"
    /\ retry' = [retry EXCEPT !.pc = "call", !.slept = Append(@, delays[retry.attempt])]
    /\ UNCHANGED chat
    /\ UNCHANGED <<obsVars, obsCall, goalVars, runVars, watchEmitted, homeVars, saveVars, fair, uiVars>>

\* Lines 26-34: err = fn(); nil ends the run with nil; an error starts the
\* next attempt, and after the last attempt it is wrapped and returned. A
\* panic of fn is not recovered here.
RetryCall ==
    /\ retry.pc = "call"
    /\ \E r \in FnResults :
        retry' = IF r = FnNil
                 THEN [retry EXCEPT !.pc = "done", !.outcomes = Append(@, r),
                                    !.result = [kind |-> "nil", wraps |-> FnNil]]
                 ELSE IF r = FnPanic
                 THEN [retry EXCEPT !.pc = "panic", !.outcomes = Append(@, r)]
                 ELSE IF retry.attempt + 1 < Len(delays) + 1
                 THEN [retry EXCEPT !.pc = "sleep", !.outcomes = Append(@, r), !.attempt = @ + 1]
                 ELSE [retry EXCEPT !.pc = "done", !.outcomes = Append(@, r), !.attempt = @ + 1,
                                    !.result = [kind |-> "error", wraps |-> r]]
    /\ UNCHANGED chat
    /\ UNCHANGED <<obsVars, obsCall, goalVars, runVars, watchEmitted, homeVars, saveVars, fair, uiVars>>

\* A call of Chat: the receiver may be a nil provider, a message may carry a
\* role that is not supported, and the client library answers with a text,
\* an error, no content, a block that is not text, or it panics.
ChatInputs == [nilReceiver : BOOLEAN, role : {"user", "system"},
               api : {"text", "error", "empty", "nontext", "panic"}]

NoError == <<>>

\* The body of Chat below its deferred function (anthropic.go 41-79,
\* openai.go 43-78): the roles are converted first, then the client of the
\* receiver is called, which panics on a nil receiver.
ChatBody(provider, in) ==
    IF in.role # "user"
    THEN [response |-> "", err |-> <<"unsupported message role">>, panics |-> FALSE]
    ELSE IF in.nilReceiver \/ in.api = "panic"
    THEN [response |-> "", err |-> NoError, panics |-> TRUE]
    ELSE IF in.api = "error"
    THEN [response |-> "", err |-> <<"API error", provider>>, panics |-> FALSE]
    ELSE IF in.api = "empty"
    THEN [response |-> "", err |-> <<"empty response", provider>>, panics |-> FALSE]
    ELSE IF in.api = "nontext" /\ provider = "Anthropic"
    THEN [response |-> "", err |-> <<"unexpected response type", provider>>, panics |-> FALSE]
    ELSE [response |-> "text", err |-> NoError, panics |-> FALSE]

\* The deferred recover of anthropic.go, lines 36-40: a panic becomes the
\* error of the call, the named result response keeps its value.
Recovered(provider, body) ==
    IF body.panics
    THEN [response |-> body.response, err |-> <<"panic in provider", provider>>, panics |-> FALSE]
    ELSE body

NoChat == [provider |-> "none", in |-> [nilReceiver |-> FALSE, role |-> "user", api |-> "text"],
           result |-> [response |-> "", err |-> NoError, panics |-> FALSE]]

\* AnthropicProvider.Chat: the body runs under the deferred recover.
AnthropicChat ==
    /\ \E in \in ChatInputs :
        chat' = [provider |-> "Anthropic", in |-> in, result |-> Recovered("Anthropic", ChatBody("Anthropic", in))]
    /\ UNCHANGED retry
    /\ UNCHANGED <<obsVars, obsCall, goalVars, runVars, watchEmitted, homeVars, saveVars, fair, uiVars>>

\* OpenAIProvider.Chat (openai.go, lines 42-79) defers nothing: what the
\* body does is what the caller gets.
OpenAIChat ==
    /\ \E in \in ChatInputs :
        /\ in.api # "nontext"
        /\ chat' = [provider |-> "OpenAI", in |-> in, result |-> ChatBody("OpenAI", in)]
    /\ UNCHANGED retry
    /\ UNCHANGED <<obsVars, obsCall, goalVars, runVars, watchEmitted, homeVars, saveVars, fair, uiVars>>

\* No WithRetry is running and no Chat was called.
(***************************************************************************)
(* The undo stack of the UI                                                *)
(***************************************************************************)

\* Bound of the undo model: the sessions deleted in a run.
MaxDeleted == 12

\* pushUndoStack, line 1429: the capacity of the stack.
UndoCap == 10

\* A stack that keeps its oldest entries when it is full.
PushUndo_KeepOldest(stack, inst) ==
    LET st == Append(stack, inst)
    IN  IF Len(st) > UndoCap THEN SubSeq(st, 1, UndoCap) ELSE st

\* pushUndoStack, lines 1428-1431: append, then keep the last UndoCap.
PushUndo(stack, inst) ==
    LET st == Append(stack, inst)
    IN  IF Len(st) > UndoCap THEN SubSeq(st, Len(st) - UndoCap + 1, Len(st)) ELSE st

\* A session is deleted in the UI: its instance, one that is not on the
\* stack, is pushed.
DeleteSession ==
    /\ deleted < MaxDeleted
    /\ deleted' = deleted + 1
    /\ undoStack' = PushUndo(undoStack, deleted + 1)
    /\ uiLast' = [op |-> "delete", inst |-> deleted + 1]
    /\ UNCHANGED <<cursor, flatItems, viewOffset, uiErr, edit>>
    /\ UNCHANGED <<obsVars, obsCall, goalVars, runVars, watchEmitted, homeVars, saveVars, aiVars, fair>>

\* handleMainKey, case "ctrl+z": "nothing to undo" on an empty stack;
\* otherwise the last entry is taken off the stack and the command that
\* restarts its instance is returned.
Undo ==
    /\ IF Len(undoStack) = 0
       THEN /\ uiErr' = TRUE
            /\ uiLast' = [op |-> "undo", inst |-> 0]
            /\ UNCHANGED undoStack
       ELSE /\ undoStack' = SubSeq(undoStack, 1, Len(undoStack) - 1)
            /\ uiLast' = [op |-> "undo", inst |-> undoStack[Len(undoStack)]]
            /\ UNCHANGED uiErr
    /\ UNCHANGED <<deleted, cursor, flatItems, viewOffset, edit>>
    /\ UNCHANGED <<obsVars, obsCall, goalVars, runVars, watchEmitted, homeVars, saveVars, aiVars, fair>>

(***************************************************************************)
(* The cursor across a reload                                              *)
(***************************************************************************)

\* Bounds of the reload model: the sessions, the groups, the items shown.
ReloadSessions == 2
ReloadGroups == 2
MaxItems == 3

\* An item of h.flatItems: its Type, and the ID of its session or the path
\* of its group.
Items == ({"session"} \X (1..ReloadSessions)) \cup ({"group"} \X (1..ReloadGroups))

\* The lists that Flatten can yield: no item twice.
ItemLists ==
    {l \in UNION {[1..n -> Items] : n \in 0..MaxItems} :
        \A i, j \in 1..Len(l) : l[i] = l[j] => i = j}

\* The empty string of cursorSessionID and cursorGroupPath.
NoID == 0

\* preserveState, lines 1137-1166 (the expanded groups are part of the new list).
PreserveState ==
    LET onItem == cursor < Len(flatItems)
        item == flatItems[cursor + 1]
    IN  [cursorSessionID |-> IF onItem /\ item[1] = "session" THEN item[2] ELSE NoID,
         cursorGroupPath |-> IF onItem /\ item[1] = "group" THEN item[2] ELSE NoID,
         viewOffset |-> viewOffset]

\* The index (from 0) of an item in a list, -1 if it is not there.
IndexOf(items, item) ==
    IF \E i \in 1..Len(items) : items[i] = item
    THEN (CHOOSE i \in 1..Len(items) : items[i] = item /\ \A j \in 1..(i - 1) : items[j] # item) - 1
    ELSE -1

\* A position that is not clamped.
ClampIndex_None(x, n) == x

\* restoreState, lines 1212-1213 and 1221-1222: min(x, n - 1), then max(.., 0).
ClampIndex(x, n) ==
    LET upper == IF x < n - 1 THEN x ELSE n - 1
    IN  IF upper > 0 THEN upper ELSE 0

\* rebuildFlatItems, lines 1281-1286: the cursor is made valid for the new list.
RebuiltCursor(cur, items) ==
    LET c == IF cur >= Len(items) THEN Len(items) - 1 ELSE cur
    IN  IF c < 0 THEN 0 ELSE c

\* restoreState, lines 1184-1217: the session, else the group, else the
\* clamped cursor.
RestoredCursor(state, cur, items) ==
    LET c0 == RebuiltCursor(cur, items)
        bySession == IF state.cursorSessionID # NoID
                     THEN IndexOf(items, <<"session", state.cursorSessionID>>) ELSE -1
        byGroup == IF state.cursorGroupPath # NoID
                   THEN IndexOf(items, <<"group", state.cursorGroupPath>>) ELSE -1
    IN  IF bySession >= 0 THEN bySession
        ELSE IF byGroup >= 0 THEN byGroup
        ELSE IF Len(items) > 0 THEN ClampIndex(c0, Len(items)) ELSE 0

\* restoreState, lines 1219-1226.
RestoredOffset(state, items) ==
    IF Len(items) > 0 THEN ClampIndex(state.viewOffset, Len(items)) ELSE 0

\* A reload: the state is preserved, the storage yields the list items,
\* and restoreState rebuilds the flat items and restores the state.
Reload(items) ==
    /\ flatItems' = items
    /\ cursor' = RestoredCursor(PreserveState, cursor, items)
    /\ viewOffset' = RestoredOffset(PreserveState, items)
    /\ uiLast' = [op |-> "reload", state |-> PreserveState, cursor |-> cursor]
    /\ UNCHANGED <<undoStack, deleted, uiErr, edit>>
    /\ UNCHANGED <<obsVars, obsCall, goalVars, runVars, watchEmitted, homeVars, saveVars, aiVars, fair>>

\* The UI has done nothing: no session deleted, an empty list, no edit,
\* and the counts of the statuses never computed.
InitUIIdle ==
    /\ lockedCalls = {}
    /\ cachedValid = FALSE
    /\ cachedCounts = NoCounts
    /\ undoStack = <<>>
    /\ deleted = 0
    /\ cursor = 0
    /\ flatItems = <<>>
    /\ viewOffset = 0
    /\ uiErr = FALSE
    /\ uiLast = NoOp
    /\ edit = NoEdit

InitAIIdle ==
    /\ retry = IdleRetry
    /\ chat = NoChat

(***************************************************************************)
(* The saved file: SaveObservations (observer.go) and SaveGoals            *)
(* (WatchManager) write <path>.tmp, fsync it and rename it over <path>.    *)
(***************************************************************************)
NumSavers == 2
MaxSaves == 1
ChunksPerFile == 2
NumVersions == 2

\* The goroutines that save the same file.
SaveCallers == 1..NumSavers

\* path, and tmpPath := path + ".tmp": one name for every saver.
FileNames == {"path", "tmp"}

\* What the memory holds when a saver marshals it, and what the file held
\* before the first save.
Versions == 1..NumVersions
PreviousVersion == 0
\* The bytes of a range of a file that nothing has written.
Hole == -1

MaxInodes == 1 + NumSavers * MaxSaves

\* json.MarshalIndent: the complete document of one version.
Data(v) == [i \in 1..ChunksPerFile |-> v]

IdleSave == [data |-> PreviousVersion, fd |-> 0, offset |-> 0, saves |-> 0, err |-> FALSE]

\* write(2) on a descriptor opened without O_APPEND: the chunk goes to the
\* offset of the descriptor, whatever the length of the file is by then.
WriteAt(content, pos, chunk) ==
    [i \in 1..(IF Len(content) > pos THEN Len(content) ELSE pos) |->
        IF i = pos THEN chunk
        ELSE IF i <= Len(content) THEN content[i]
        ELSE Hole]

\* The file that was there before, if any; no save is running.
InitSaveIdle ==
    /\ \E present \in BOOLEAN :
        /\ fsDir = [n \in FileNames |-> IF n = "path" /\ present THEN 1 ELSE 0]
        /\ inodeCount = IF present THEN 1 ELSE 0
    /\ fsData = [i \in 1..MaxInodes |-> IF i = 1 /\ fsDir["path"] = 1 THEN Data(PreviousVersion) ELSE <<>>]
    /\ savePc = [s \in SaveCallers |-> "idle"]
    /\ saveLocal = [s \in SaveCallers |-> IdleSave]

\* json.MarshalIndent of a copy taken under the read lock, after the lock was
\* released; nothing is on disk yet.
SaveMarshal(s) ==
    /\ ~crashed
    /\ savePc[s] = "idle"
    /\ saveLocal[s].saves < MaxSaves
    /\ \E v \in Versions :
        saveLocal' = [saveLocal EXCEPT ![s] = [@ EXCEPT !.data = v, !.fd = 0, !.offset = 0, !.err = FALSE]]
    /\ savePc' = [savePc EXCEPT ![s] = "open"]
    /\ UNCHANGED <<fsDir, fsData, inodeCount, crashed>>
    /\ UNCHANGED nonSaveVars

\* os.WriteFile(tmpPath, ...) opens with O_WRONLY|O_CREATE|O_TRUNC: an
\* existing temp file is emptied in place, a missing one is created.
SaveOpen(s) ==
    /\ ~crashed
    /\ savePc[s] = "open"
    /\ IF fsDir["tmp"] # 0
       THEN /\ fsData' = [fsData EXCEPT ![fsDir["tmp"]] = <<>>]
            /\ saveLocal' = [saveLocal EXCEPT ![s].fd = fsDir["tmp"]]
            /\ UNCHANGED <<fsDir, inodeCount>>
       ELSE /\ inodeCount < MaxInodes
            /\ inodeCount' = inodeCount + 1
            /\ fsDir' = [fsDir EXCEPT !["tmp"] = inodeCount + 1]
            /\ fsData' = [fsData EXCEPT ![inodeCount + 1] = <<>>]
            /\ saveLocal' = [saveLocal EXCEPT ![s].fd = inodeCount + 1]
    /\ savePc' = [savePc EXCEPT ![s] = "write"]
    /\ UNCHANGED crashed
    /\ UNCHANGED nonSaveVars

\* os.WriteFile writes the data; a failing write ends the save with an
\* error and leaves the temp file as it is. After the last chunk the
\* descriptor is closed.
SaveWrite(s) ==
    /\ ~crashed
    /\ savePc[s] = "write"
    /\ \E ok \in BOOLEAN :
        IF ok
        THEN /\ fsData' = [fsData EXCEPT ![saveLocal[s].fd] =
                              WriteAt(@, saveLocal[s].offset + 1, saveLocal[s].data)]
             /\ saveLocal' = [saveLocal EXCEPT ![s].offset = @ + 1]
             /\ savePc' = [savePc EXCEPT ![s] =
                              IF saveLocal[s].offset + 1 = ChunksPerFile THEN "sync" ELSE "write"]
        ELSE /\ saveLocal' = [saveLocal EXCEPT ![s] = [@ EXCEPT !.err = TRUE, !.saves = @ + 1]]
             /\ savePc' = [savePc EXCEPT ![s] = "idle"]
             /\ UNCHANGED fsData
    /\ UNCHANGED <<fsDir, inodeCount, crashed>>
    /\ UNCHANGED nonSaveVars

\* syncFile(tmpPath): a failure is logged and the save goes on.
SaveSync(s) ==
    /\ ~crashed
    /\ savePc[s] = "sync"
    /\ savePc' = [savePc EXCEPT ![s] = "rename"]
    /\ UNCHANGED <<fsDir, fsData, inodeCount, saveLocal, crashed>>
    /\ UNCHANGED nonSaveVars

\* os.Rename(tmpPath, path): the name path now refers to the inode of the
\* temp file, whatever it holds; without a temp file the save fails.
SaveRename(s) ==
    /\ ~crashed
    /\ savePc[s] = "rename"
    /\ IF fsDir["tmp"] # 0
       THEN /\ fsDir' = [fsDir EXCEPT !["path"] = fsDir["tmp"], !["tmp"] = 0]
            /\ saveLocal' = [saveLocal EXCEPT ![s].saves = @ + 1]
       ELSE /\ saveLocal' = [saveLocal EXCEPT ![s] = [@ EXCEPT !.err = TRUE, !.saves = @ + 1]]
            /\ UNCHANGED fsDir
    /\ savePc' = [savePc EXCEPT ![s] = "idle"]
    /\ UNCHANGED <<fsData, inodeCount, crashed>>
    /\ UNCHANGED nonSaveVars

\* The process is killed: no saver takes another step, the files stay.
SaveCrash ==
    /\ ~crashed
    /\ crashed' = TRUE
    /\ UNCHANGED saveVars
    /\ UNCHANGED nonSaveVars

\* A Home without instances, before its workers run.
InitHomeIdle ==
    /\ status = <<>>
    /\ acked = <<>>
    /\ pane = <<>>
    /\ view = [viewOffset |-> 0, visibleHeight |-> MinVisibleHeight, flatItemIDs |-> <<>>]
    /\ statusUpdateIndex = 0
    /\ statusTrigger = <<>>
    /\ notificationsEnabled = FALSE
    /\ ackSignal = 0
    /\ entries = <<>>
    /\ lastBarText = <<>>
    /\ bar = <<>>
    /\ boundKeys = [k \in Keys |-> NoBinding]
    /\ syncPc = [p \in SyncProcs |-> "idle"]
    /\ syncLocal = [p \in SyncProcs |-> IdleSync]
    /\ lastTick = NoTick
    /\ probe = 0
    /\ age = 0

\* NewWatchManager, before any call.
InitGoalsIdle ==
    /\ watchCfg = [MaxConcurrentGoals |-> {}, DefaultInterval |-> {}]
    /\ goals = [g \in GoalIDs |-> NoGoal]
    /\ goalsFile = [exists |-> FALSE, entries |-> <<>>]
    /\ loadPc = 0
    /\ lastAdd = NeverAdded

InitObsIdle ==
    /\ obsCfg = [RetentionCount |-> {}, MaxSizeBytes |-> {}]
    /\ obsSessions = [s \in ObsSessionIDs |-> Absent]
    /\ obsMu = "free"
    /\ obsPc = [t \in ObsThreads |-> "idle"]
    /\ obsLocal = [t \in ObsThreads |-> IdleLocal]
    /\ obsDisk = [s \in ObsSessionIDs |-> <<>>]
    /\ crashed = FALSE
    /\ obsCall = IdleObsCall

\* NewSessionObserver with a configuration from the user's config file.
InitObs ==
    /\ obsCfg \in [RetentionCount : {{r} : r \in (-1)..MaxRetentionCfg}, MaxSizeBytes : {{m} : m \in (-1)..MaxSizeCfg}]
    /\ obsSessions = [s \in ObsSessionIDs |-> Absent]
    /\ obsMu = "free"
    /\ obsPc = [t \in ObsThreads |-> "idle"]
    /\ obsLocal = [t \in ObsThreads |-> IdleLocal]
    /\ obsDisk = [s \in ObsSessionIDs |-> <<>>]
    /\ crashed = FALSE
    /\ obsCall = IdleObsCall
    /\ InitGoalsIdle
    /\ InitRunIdle
    /\ InitSaveIdle
    /\ InitAIIdle
    /\ fair = NoFair
    /\ InitUIIdle
    /\ InitHomeIdle

NextObs ==
    \E t \in ObsThreads :
        \/ ObserveStart(t)
        \/ ObserveLock(t)
        \/ ObserveCS(t)
        \/ ObserveUnlock(t)
        \/ SaveLookup(t)
        \/ SavePersist(t)
        \/ ObserveReturn(t)

SpecObs == InitObs /\ [][NextObs]_vars

\* An observer that retains RemoveRetention observations per session; the UI
\* deletes sessions and reads observations while Observe calls are in
\* flight. Once a session was deleted the UI starts no new Observe.
InitRemove ==
    /\ obsCfg = [RetentionCount |-> {RemoveRetention}, MaxSizeBytes |-> {}]
    /\ obsSessions = [s \in ObsSessionIDs |-> Absent]
    /\ obsMu = "free"
    /\ obsPc = [t \in ObsThreads |-> "idle"]
    /\ obsLocal = [t \in ObsThreads |-> IdleLocal]
    /\ obsDisk = [s \in ObsSessionIDs |-> <<>>]
    /\ crashed = FALSE
    /\ obsCall = IdleObsCall
    /\ InitGoalsIdle
    /\ InitRunIdle
    /\ InitSaveIdle
    /\ InitAIIdle
    /\ fair = NoFair
    /\ InitUIIdle
    /\ InitHomeIdle

NextRemove ==
    \/ \E t \in ObsThreads :
        \/ ObserveStart(t) /\ obsCall.stage = 0 /\ obsCall.pc = "idle"
        \/ ObserveLock(t)
        \/ ObserveCS(t)
        \/ ObserveUnlock(t)
        \/ SaveLookup(t)
        \/ SavePersist(t)
        \/ ObserveReturn(t)
    \/ RemoveSessionLock
    \/ RemoveSessionDelete
    \/ LoadObservationsRead
    \/ LoadObservationsLock
    \/ LoadObservationsStore
    \/ GetObservations

SpecRemove == InitRemove /\ [][NextRemove]_vars

\* Bound of the load model: the entries of a file left by an earlier run.
MaxOldEntries == 2

\* The files an earlier run, with other settings, can have left: up to
\* MaxOldEntries observations with contents that were not truncated.
OldFiles ==
    UNION {[1..n -> {[Content |-> c, ContentHash |-> Sha256Hex(c)] : c \in Contents}] : n \in 0..MaxOldEntries}

\* An observer with RetentionCount 1 and MaxSizeBytes 0 starts over the
\* files of an earlier run; sessions are loaded and observed, one call
\* after the other.
InitLoad ==
    /\ obsCfg = [RetentionCount |-> {RemoveRetention}, MaxSizeBytes |-> {MaxSizeCfg}]
    /\ obsSessions = [s \in ObsSessionIDs |-> Absent]
    /\ obsMu = "free"
    /\ obsPc = [t \in ObsThreads |-> "idle"]
    /\ obsLocal = [t \in ObsThreads |-> IdleLocal]
    /\ obsDisk \in [ObsSessionIDs -> OldFiles]
    /\ crashed = FALSE
    /\ obsCall = IdleObsCall
    /\ InitGoalsIdle
    /\ InitRunIdle
    /\ InitSaveIdle
    /\ InitAIIdle
    /\ fair = NoFair
    /\ InitUIIdle
    /\ InitHomeIdle

\* No call of the observer is under way.
ObserverIdle == obsCall.pc = "idle" /\ \A t \in ObsThreads : obsPc[t] = "idle"

\* The calls follow one another.
NextLoad ==
    \/ \E t \in ObsThreads :
        \/ ObserveStart(t) /\ ObserverIdle
        \/ ObserveLock(t)
        \/ ObserveCS(t)
        \/ ObserveUnlock(t)
        \/ SaveLookup(t)
        \/ SavePersist(t)
        \/ ObserveReturn(t)
    \/ LoadObservationsRead /\ ObserverIdle
    \/ LoadObservationsLock
    \/ LoadObservationsStore

SpecLoad == InitLoad /\ [][NextLoad]_vars

\* NewWatchManager with a configuration and a goals file of the user.
InitGoals ==
    /\ watchCfg \in [MaxConcurrentGoals : {{}, {0}, {SmallGoalsCfg}, {LargeGoalsCfg}},
                      DefaultInterval : {{}, {DefaultIntervalCfg}}]
    /\ goals = [g \in GoalIDs |-> NoGoal]
    /\ goalsFile \in GoalFiles
    /\ loadPc = 0
    /\ lastAdd = NeverAdded
    /\ InitObsIdle
    /\ InitRunIdle
    /\ InitSaveIdle
    /\ InitAIIdle
    /\ fair = NoFair
    /\ InitUIIdle
    /\ InitHomeIdle

NextGoals ==
    \/ AddGoal
    \/ RemoveGoal
    \/ LoadGoalsReset
    \/ LoadGoalsAdd
    \/ LoadGoalsReturn

SpecGoals == InitGoals /\ [][NextGoals]_vars

\* Goals are added, and edited in the watch dialog.
InitEdit ==
    /\ watchCfg = [MaxConcurrentGoals |-> {}, DefaultInterval |-> {}]
    /\ goals = [g \in GoalIDs |-> NoGoal]
    /\ goalsFile \in {f \in GoalFiles : ~f.exists}
    /\ loadPc = 0
    /\ lastAdd = NeverAdded
    /\ InitObsIdle
    /\ InitRunIdle
    /\ InitSaveIdle
    /\ InitAIIdle
    /\ fair = NoFair
    /\ InitUIIdle
    /\ InitHomeIdle

NextEdit ==
    \/ AddGoal /\ edit.pc = "idle"
    \/ UpdateGoalRemove
    \/ UpdateGoalAdd
    \/ UpdateGoalDone

SpecEdit == InitEdit /\ [][NextEdit]_vars

\* A WatchManager with a provider and an observer, default configuration.
InitWatch ==
    /\ InitGoalsIdle
    /\ InitObsIdle
    /\ InitRunIdle
    /\ InitSaveIdle
    /\ InitAIIdle
    /\ fair = NoFair
    /\ InitUIIdle
    /\ InitHomeIdle

NextWatch ==
    \/ AddGoalFrom(WatchGoalInputs)
    \/ RemoveGoalFrom(WatchGoalIDs)
    \/ \E id \in WatchGoalIDs : PauseGoal(id)
    \/ \E id \in WatchGoalIDs : ResumeGoal(id)
    \/ \E id \in WatchGoalIDs : GoalTimesOut(id)
    \/ \E c \in WatchCallers : StartBegin(c)
    \/ \E c \in WatchCallers : StartSpawn(c)
    \/ \E c \in WatchCallers : StartReturn(c)
    \/ \E c \in WatchCallers : StopBegin(c)
    \/ \E c \in WatchCallers : StopWait(c)
    \/ \E c \in WatchCallers : StopWoken(c)
    \/ \E c \in WatchCallers : StopClear(c)
    \/ \E w \in WorkerIDs : WorkerBegin(w)
    \/ \E w \in WorkerIDs : WorkerStopped(w)
    \/ \E w \in WorkerIDs : WorkerTick(w)
    \/ \E w \in WorkerIDs : WorkerPause(w)
    \/ \E w \in WorkerIDs : ChatReturnsFrom(w, {ReplyOf(<<NoCommentTag>>), ReplyOf(<<"text">>)})
    \/ \E w \in WorkerIDs : EvaluateReply(w)

SpecWatch == InitWatch /\ [][NextWatch]_vars

\* A Home with up to NumSessions sessions, none awaiting input, some of
\* which may have a pane on which UpdateStatus panics; the viewport and the
\* probe are any.
InitSched ==
    /\ \E n \in 0..NumSessions :
        /\ status \in [1..n -> {"running", "idle"}]
        /\ pane \in [1..n -> {"working", "quiet", "broken"}]
        /\ \A s \in 1..n : status[s] = "idle" => pane[s] # "working"
        /\ acked = [s \in 1..n |-> FALSE]
        /\ view \in [viewOffset : 0..n, visibleHeight : {MinVisibleHeight}, flatItemIDs : {[i \in 1..n |-> i]}]
        /\ probe \in {s \in 0..n : s = 0 <=> n = 0}
    /\ statusUpdateIndex = 0
    /\ statusTrigger = <<>>
    /\ notificationsEnabled \in BOOLEAN
    /\ ackSignal = 0
    /\ entries = <<>>
    /\ lastBarText = <<>>
    /\ bar = <<>>
    /\ boundKeys = [k \in Keys |-> NoBinding]
    /\ syncPc = [p \in SyncProcs |-> "idle"]
    /\ syncLocal = [p \in SyncProcs |-> IdleSync]
    /\ lastTick = NoTick
    /\ age = 0
    /\ InitObsIdle
    /\ InitGoalsIdle
    /\ InitRunIdle
    /\ InitSaveIdle
    /\ InitAIIdle
    /\ fair = NoFair
    /\ InitUIIdle

NextSched ==
    \/ TickerFires
    \/ TriggerReceived
    \/ TriggerStatusUpdate
    \/ \E s \in 1..NumSessions : LogWorkerUpdate(s)
    \/ \E s \in 1..NumSessions, p \in {"working", "quiet"} : PaneChanges(s, p)
    \/ SyncAck("bg")
    \/ SyncDerive("bg")
    \/ SyncKeys("bg")
    \/ SyncReconcile("bg")

SpecSched == InitSched /\ [][NextSched]_vars

\* A Home with notifications whose sessions work, await input or are idle,
\* with every viewport of the least height; the user presses bound keys.
InitTick ==
    /\ status \in [1..NumSessions -> {"running", "waiting", "idle"}]
    /\ pane = [s \in 1..NumSessions |->
                  CASE status[s] = "running" -> "working"
                    [] status[s] = "waiting" -> "prompt"
                    [] OTHER -> "quiet"]
    /\ acked = [s \in 1..NumSessions |-> FALSE]
    /\ view \in [viewOffset : 0..NumSessions, visibleHeight : {MinVisibleHeight},
                  flatItemIDs : {[i \in 1..NumSessions |-> i]}]
    /\ probe = 0
    /\ statusUpdateIndex = 0
    /\ statusTrigger = <<>>
    /\ notificationsEnabled = TRUE
    /\ ackSignal = 0
    /\ entries = <<>>
    /\ lastBarText = <<>>
    /\ bar = <<>>
    /\ boundKeys = [k \in Keys |-> NoBinding]
    /\ syncPc = [p \in SyncProcs |-> "idle"]
    /\ syncLocal = [p \in SyncProcs |-> IdleSync]
    /\ lastTick = NoTick
    /\ age = 0
    /\ InitObsIdle
    /\ InitGoalsIdle
    /\ InitRunIdle
    /\ InitSaveIdle
    /\ InitAIIdle
    /\ fair = NoFair
    /\ InitUIIdle

NextTick ==
    \/ TickerFires
    \/ TriggerReceived
    \/ TriggerStatusUpdate
    \/ SyncAck("bg")
    \/ SyncDerive("bg")
    \/ SyncWrite("bg")
    \/ SyncKeys("bg")
    \/ SyncReconcile("bg")
    \/ \E k \in Keys : UserPressesKey(k)

SpecTick == InitTick /\ [][NextTick]_vars

\* The view renders the counts of the statuses while the worker, the log
\* workers and the notification sync update the sessions.
InitCache ==
    /\ status \in [1..CacheSessions -> {"running", "waiting"}]
    /\ pane = [s \in 1..CacheSessions |-> IF status[s] = "running" THEN "working" ELSE "prompt"]
    /\ acked = [s \in 1..CacheSessions |-> FALSE]
    /\ view = [viewOffset |-> 0, visibleHeight |-> MinVisibleHeight,
               flatItemIDs |-> [i \in 1..CacheSessions |-> i]]
    /\ probe = 0
    /\ statusUpdateIndex = 0
    /\ statusTrigger = <<>>
    /\ notificationsEnabled = TRUE
    /\ ackSignal = 0
    /\ entries = <<>>
    /\ lastBarText = <<>>
    /\ bar = <<>>
    /\ boundKeys = [k \in Keys |-> NoBinding]
    /\ syncPc = [p \in SyncProcs |-> "idle"]
    /\ syncLocal = [p \in SyncProcs |-> IdleSync]
    /\ lastTick = NoTick
    /\ age = 0
    /\ InitObsIdle
    /\ InitGoalsIdle
    /\ InitRunIdle
    /\ InitSaveIdle
    /\ InitAIIdle
    /\ fair = NoFair
    /\ InitUIIdle

NextCache ==
    \/ TickerFires
    \/ TriggerReceived
    \/ TriggerStatusUpdate
    \/ \E s \in 1..CacheSessions : LogWorkerUpdate(s)
    \/ \E s \in 1..CacheSessions, p \in {"working", "prompt"} : PaneChanges(s, p)
    \/ SyncAck("bg")
    \/ SyncDerive("bg")
    \/ SyncWrite("bg")
    \/ SyncKeys("bg")
    \/ SyncReconcile("bg")
    \/ \E k \in Keys : UserPressesKey(k)
    \/ GetStatusCounts

SpecCache == InitCache /\ [][NextCache]_vars

\* A Home with FairSessions working sessions of which FairVisible, anywhere
\* in the list, are in the viewport; the ticks and the calls are counted.
InitFair ==
    /\ status = [s \in 1..FairSessions |-> "running"]
    /\ pane = [s \in 1..FairSessions |-> "working"]
    /\ acked = [s \in 1..FairSessions |-> FALSE]
    /\ view \in [viewOffset : 0..(FairSessions - FairVisible), visibleHeight : {FairVisible},
                  flatItemIDs : {[i \in 1..FairSessions |-> i]}]
    /\ probe = 0
    /\ statusUpdateIndex = 0
    /\ statusTrigger = <<>>
    /\ notificationsEnabled = FALSE
    /\ ackSignal = 0
    /\ entries = <<>>
    /\ lastBarText = <<>>
    /\ bar = <<>>
    /\ boundKeys = [k \in Keys |-> NoBinding]
    /\ syncPc = [p \in SyncProcs |-> "idle"]
    /\ syncLocal = [p \in SyncProcs |-> IdleSync]
    /\ lastTick = NoTick
    /\ age = 0
    /\ fair = [on |-> TRUE, ticks |-> 0, counts |-> [s \in 1..FairSessions |-> 0]]
    /\ InitUIIdle
    /\ InitObsIdle
    /\ InitGoalsIdle
    /\ InitRunIdle
    /\ InitSaveIdle
    /\ retry = IdleRetry
    /\ chat = NoChat

NextFair ==
    \/ TickerFires
    \/ TriggerReceived
    \/ TriggerStatusUpdate
    \/ SyncAck("bg")

SpecFair == InitFair /\ [][NextFair]_vars

\* Sessions are deleted and deletions undone.
InitUndo ==
    /\ InitObsIdle
    /\ InitGoalsIdle
    /\ InitRunIdle
    /\ InitSaveIdle
    /\ InitAIIdle
    /\ fair = NoFair
    /\ InitUIIdle
    /\ InitHomeIdle

NextUndo ==
    \/ DeleteSession
    \/ Undo

SpecUndo == InitUndo /\ [][NextUndo]_vars

\* A list is shown, the cursor on one of its items and the viewport
\* starting at one; then the storage is reloaded.
InitReload ==
    /\ InitObsIdle
    /\ InitGoalsIdle
    /\ InitRunIdle
    /\ InitSaveIdle
    /\ InitAIIdle
    /\ fair = NoFair
    /\ InitHomeIdle
    /\ lockedCalls = {}
    /\ cachedValid = FALSE
    /\ cachedCounts = NoCounts
    /\ undoStack = <<>>
    /\ deleted = 0
    /\ flatItems \in ItemLists
    /\ cursor \in 0..(IF Len(flatItems) = 0 THEN 0 ELSE Len(flatItems) - 1)
    /\ viewOffset \in 0..(IF Len(flatItems) = 0 THEN 0 ELSE Len(flatItems) - 1)
    /\ uiErr = FALSE
    /\ uiLast = NoOp
    /\ edit = NoEdit

NextReload == \E items \in ItemLists : Reload(items)

SpecReload == InitReload /\ [][NextReload]_vars

\* The evaluations of a manager that one caller starts and nobody stops.
InitEval == InitWatch

NextEval ==
    \/ AddGoalFrom(EvalGoalInputs)
    \/ \E id \in EvalGoalIDs : PauseGoal(id)
    \/ \E id \in EvalGoalIDs : ResumeGoal(id)
    \/ \E id \in EvalGoalIDs : GoalTimesOut(id)
    \/ StartBegin("c1")
    \/ StartSpawn("c1")
    \/ StartReturn("c1")
    \/ \E w \in WorkerIDs : WorkerBegin(w)
    \/ \E w \in WorkerIDs : WorkerTickFrom(w, {"none", "some", "panic"})
    \/ \E w \in WorkerIDs : WorkerPause(w)
    \/ \E w \in WorkerIDs : ChatReturns(w)
    \/ \E w \in WorkerIDs : EvaluateReply(w)

SpecEval == InitEval /\ [][NextEval]_vars

\* A Home with WideSessions working sessions, more than a viewport of the
\* least height and a batch hold together.
InitWide ==
    /\ status = [s \in 1..WideSessions |-> "running"]
    /\ pane = [s \in 1..WideSessions |-> "working"]
    /\ acked = [s \in 1..WideSessions |-> FALSE]
    /\ view \in [viewOffset : 0..WideSessions, visibleHeight : {MinVisibleHeight},
                  flatItemIDs : {[i \in 1..WideSessions |-> i]}]
    /\ probe = 1
    /\ statusUpdateIndex = 0
    /\ statusTrigger = <<>>
    /\ notificationsEnabled = TRUE
    /\ ackSignal = 0
    /\ entries = <<>>
    /\ lastBarText = <<>>
    /\ bar = <<>>
    /\ boundKeys = [k \in Keys |-> NoBinding]
    /\ syncPc = [p \in SyncProcs |-> "idle"]
    /\ syncLocal = [p \in SyncProcs |-> IdleSync]
    /\ lastTick = NoTick
    /\ age = 0
    /\ InitObsIdle
    /\ InitGoalsIdle
    /\ InitRunIdle
    /\ InitSaveIdle
    /\ InitAIIdle
    /\ fair = NoFair
    /\ InitUIIdle

NextWide ==
    \/ TickerFires
    \/ TriggerReceived
    \/ TriggerStatusUpdate
    \/ SyncAck("bg")
    \/ SyncDerive("bg")
    \/ SyncKeys("bg")
    \/ SyncReconcile("bg")

SpecWide == InitWide /\ [][NextWide]_vars

\* A Home with notifications, whose sessions work or await input, and whose
\* UI runs its own sync beside the worker's on the ticks of the ticker (the
\* ticks of the triggers are those of SpecTick).
InitNotify ==
    /\ status \in [1..NotifySessions -> {"running", "waiting"}]
    /\ pane = [s \in 1..NotifySessions |-> IF status[s] = "running" THEN "working" ELSE "prompt"]
    /\ acked = [s \in 1..NotifySessions |-> FALSE]
    /\ view = [viewOffset |-> 0, visibleHeight |-> MinVisibleHeight,
               flatItemIDs |-> [i \in 1..NotifySessions |-> i]]
    /\ probe = 0
    /\ statusUpdateIndex = 0
    /\ statusTrigger = <<>>
    /\ notificationsEnabled = TRUE
    /\ ackSignal = 0
    /\ entries = <<>>
    /\ lastBarText = <<>>
    /\ bar = <<>>
    /\ boundKeys = [k \in Keys |-> NoBinding]
    /\ syncPc = [p \in SyncProcs |-> "idle"]
    /\ syncLocal = [p \in SyncProcs |-> IdleSync]
    /\ lastTick = NoTick
    /\ age = 0
    /\ InitObsIdle
    /\ InitGoalsIdle
    /\ InitRunIdle
    /\ InitSaveIdle
    /\ InitAIIdle
    /\ fair = NoFair
    /\ InitUIIdle

NextNotify ==
    \/ TickerFires
    \/ \E s \in 1..NotifySessions, p \in {"working", "prompt"} : PaneChanges(s, p)
    \/ ForegroundSync
    \/ \E p \in SyncProcs : SyncAck(p)
    \/ \E p \in SyncProcs : SyncDerive(p)
    \/ \E p \in SyncProcs : SyncWrite(p)
    \/ \E p \in SyncProcs : SyncKeys(p)
    \/ \E p \in SyncProcs : SyncReconcile(p)
    \/ \E k \in Keys : UserPressesKey(k)

SpecNotify == InitNotify /\ [][NextNotify]_vars

\* Two goroutines save the same file, over the file of an earlier run.
InitSave ==
    /\ InitObsIdle
    /\ InitGoalsIdle
    /\ InitRunIdle
    /\ InitSaveIdle
    /\ InitAIIdle
    /\ fair = NoFair
    /\ InitUIIdle
    /\ InitHomeIdle

NextSave ==
    \/ \E s \in SaveCallers :
        \/ SaveMarshal(s)
        \/ SaveOpen(s)
        \/ SaveWrite(s)
        \/ SaveSync(s)
        \/ SaveRename(s)
    \/ SaveCrash

SpecSave == InitSave /\ [][NextSave]_vars

\* One run of WithRetry, and calls of the two providers.
InitAI ==
    /\ InitObsIdle
    /\ InitGoalsIdle
    /\ InitRunIdle
    /\ InitSaveIdle
    /\ InitAIIdle
    /\ fair = NoFair
    /\ InitUIIdle
    /\ InitHomeIdle

NextAI ==
    \/ WithRetryStart
    \/ RetrySleep
    \/ RetryCall
    \/ AnthropicChat
    \/ OpenAIChat

SpecAI == InitAI /\ [][NextAI]_vars

\* C1: for every session, the number of retained observations is at most
\* RetentionCount and every retained content is at most MaxSizeBytes long,
\* after any sequence and interleaving of Observe calls.
C1_ObservationBounds ==
    \A s \in ObsSessionIDs :
        obsSessions[s].present =>
            /\ Len(obsSessions[s].Observations) <= retentionCount
            /\ \A i \in 1..Len(obsSessions[s].Observations) :
                Len(obsSessions[s].Observations[i].Content) <= maxSizeBytes

\* C1 witness: an Observe has evicted at the retention limit, and the
\* session holds exactly RetentionCount observations with a truncated one.
C1_Witness ==
    \E t \in ObsThreads :
        /\ obsLocal[t].outcome = "evicted"
        /\ obsPc[t] = "unlock"
        /\ retentionCount >= 1
        /\ Len(obsSessions[obsLocal[t].sid].Observations) = retentionCount
        /\ Len(obsLocal[t].content) > maxSizeBytes

\* C2 (as claimed): the manager never holds more than the limit, which is
\* never more than 10, and every AddGoal called when exactly the limit of
\* goals exist fails with the 'max reached' error and changes nothing.
C2_AsClaimed ==
    /\ GoalCount <= MaxConcurrentGoalsLimit
    /\ MaxConcurrentGoalsLimit <= maxConcurrentGoals
    /\ lastAdd.called /\ lastAdd.atLimit =>
        lastAdd.err = "max concurrent goals reached" /\ ~lastAdd.changed

\* C2 (amended): the manager never holds more than the limit, which is
\* never more than 10; every AddGoal called when exactly the limit of goals
\* exist fails and changes nothing, and its error is 'max reached' when
\* the goal is well formed and its ID is not in use.
C2_GoalCap ==
    /\ GoalCount <= MaxConcurrentGoalsLimit
    /\ MaxConcurrentGoalsLimit <= maxConcurrentGoals
    /\ lastAdd.called /\ lastAdd.atLimit =>
        /\ lastAdd.err # "ok"
        /\ ~lastAdd.changed
        /\ lastAdd.fresh => lastAdd.err = "max concurrent goals reached"

\* C2 witness: ten goals exist under a configured limit above the hard
\* cap, while LoadGoals runs, and an AddGoal of a well-formed goal with an
\* unused ID has just been refused.
C2_Witness ==
    /\ GoalCount = maxConcurrentGoals
    /\ watchCfg.MaxConcurrentGoals = {LargeGoalsCfg}
    /\ loadPc > 0
    /\ lastAdd.called /\ lastAdd.atLimit /\ lastAdd.fresh
    /\ lastAdd.err = "max concurrent goals reached"

\* C9: when a Stop() that closed the channel has returned, and no Start()
\* was still running when that Stop() was called, every worker spawned by
\* the preceding Start() (and by any Start() before it) has exited, so
\* none of them evaluates a goal or calls the provider any more; and the
\* closed channel is no longer installed, so that a later Start() makes a
\* new channel and spawns new workers.
C9_StopJoinsWorkers ==
    \A c \in WatchCallers :
        callPc[c] = "idle" /\ callLocal[c].op = "Stop" /\ callLocal[c].afterStart =>
            /\ \A w \in WorkerIDs : w[1] <= callLocal[c].ch => workers[w].pc \in {"none", "exited"}
            /\ stopCh # callLocal[c].ch

\* C9 witness: a Stop() has returned after a worker of its Start() had been
\* running, and a later Start() has a worker running on a new channel.
C9_Witness ==
    \E c \in WatchCallers, w, v \in WorkerIDs :
        /\ callPc[c] = "idle" /\ callLocal[c].op = "Stop" /\ callLocal[c].afterStart
        /\ w[1] = callLocal[c].ch /\ workers[w].pc = "exited"
        /\ v[1] > w[1] /\ workers[v].pc = "chat" /\ workers[v].ch = v[1]

\* C10 (as claimed): every provider call of a watch evaluation runs under a
\* context that has a deadline.
C10_ChatHasDeadline ==
    \A w \in WorkerIDs : workers[w].pc = "chat" => ChatContext.deadline # {}

\* C3 (as claimed): a panic of one session's UpdateStatus never keeps the
\* scheduler from updating the other sessions of that tick that are not
\* idle: no tick, ticker-driven or trigger-driven, leaves such a session
\* of its plan without its call.
C3_PanicIsolated == lastTick.skipped = {}

\* The sessions of the viewport, and the bound of C4 on the ticks between
\* two calls of UpdateStatus on a session.
VisibleCount == Cardinality(VisibleIDs(RequestOf(view)) \cap Instances)

StalenessBound(s) ==
    IF s \in VisibleIDs(RequestOf(view)) THEN 1
    ELSE (Len(status) - VisibleCount + batchSize - 1) \div batchSize

\* C4 (as claimed): with a fixed set of sessions and a fixed viewport, a
\* session that is not idle has UpdateStatus called on it again within
\* ceil((N - V) / BatchSize) ticks when it is not visible, and on every
\* tick when it is visible: fewer ticks than that bound pass without a
\* call.
C4_SchedulerProgress ==
    probe # 0 /\ status[probe] # "idle" => age < StalenessBound(probe)

\* C5 (as claimed): no tick of the worker, fired by the ticker or by a
\* trigger, calls UpdateStatus on more than visibleHeight + BatchSize
\* sessions.
C5_TickBudget ==
    lastTick.kind # "none" => Len(lastTick.calls) <= view.visibleHeight + batchSize

\* C6 (as claimed): every tick of the worker, fired by the ticker or by a
\* trigger, with or without sessions, runs the notification sync, which
\* checks the ack signal file.
C6_SyncOnEveryTick ==
    syncPc["bg"] = "idle" /\ lastTick.kind # "none" => lastTick.synced

\* C7 (as claimed): when the ack signal file names a waiting session s as a
\* tick of the worker begins, that tick reads and clears the signal, s is
\* not among the entries the tick derives, and after the tick's key
\* reconcile no key is bound to s.
C7_AcknowledgeFlow ==
    syncPc["bg"] = "idle" /\ lastTick.kind # "none" /\ lastTick.sig # 0
        => lastTick.ackRead /\ ~lastTick.inEntries /\ ~lastTick.boundAfter

\* C8 (as claimed): whenever no sync is in progress, in the worker or in
\* the UI, the mirror binds exactly the keys of the current entries, each to
\* "<sessionID>:<currentTmuxName>".
C8_MirrorMatchesEntries ==
    (\A p \in SyncProcs : syncPc[p] = "idle") => boundKeys = Reconciled(entries)
\* The workers of goal g that run: spawned and not yet returned.
LiveWorkers(g) ==
    {w \in WorkerIDs : w[2] = g /\ workers[w].pc \in {"spawned", "select", "pause", "chat", "done"}}

\* The manager is started: Start() has made the channel and returned, and
\* no Start() or Stop() is under way.
ManagerStarted ==
    /\ stopCh # 0
    /\ stopCh \notin closedChs
    /\ stopCh \in startDone
    /\ \A c \in WatchCallers : callPc[c] = "idle"

\* C11 (as claimed): while the manager is started, every goal it holds
\* that is not paused has exactly one running worker, and no goal has two.
C11_OneWorkerPerGoal ==
    ManagerStarted =>
        \A g \in WatchGoalIDs :
            /\ Cardinality(LiveWorkers(g)) <= 1
            /\ goals[g].present /\ ~goals[g].Paused => Cardinality(LiveWorkers(g)) = 1
\* The worker w ends an evaluation in this step, with the answer it holds.
EndsEvaluation(w) == workers[w].pc = "done" /\ workers'[w].pc # "done"

HoldsTag(text) == NoCommentTag \in Range(text)

TriggerLogs == {"triggered (notify)", "triggered (suggest)"}

\* C12: an evaluation whose reply holds "<NoComment>" anywhere changes no
\* goal (neither triggerCount nor lastTriggered) and emits nothing; and a
\* goal for which no reply without the tag was evaluated has triggerCount 0
\* and the zero lastTriggered.
C12_NoCommentDoesNothing ==
    /\ [][\A w \in WorkerIDs :
            EndsEvaluation(w) /\ workers[w].answer.kind = "reply" /\ HoldsTag(workers[w].answer.text)
                => goals' = goals /\ watchEmitted' = watchEmitted]_vars
    /\ [](\A g \in EvalGoalIDs :
            goals[g].present /\ ~(\E e \in watchEmitted : e.goal = g /\ e.log \in TriggerLogs)
                => goals[g].TriggerCount = 0 /\ goals[g].LastTriggered = ZeroTime)

\* C12 witness: the provider has replied with the tag in the middle of its
\* reply, for a goal that was evaluated before (a panic was recovered) and
\* never triggered.
C12_Witness ==
    \E w \in WorkerIDs :
        /\ workers[w].pc = "done"
        /\ workers[w].answer = ReplyOf(<<"text", NoCommentTag, "text">>)
        /\ goals[w[2]].present /\ goals[w[2]].TriggerCount = 0
        /\ watchEmitted = {PanicEmission(w[2])}

\* C13: an evaluation of a goal that ends with a reply without the tag adds
\* exactly 1 to the triggerCount of that goal and sets its lastTriggered to
\* the time of the evaluation; and no other step changes the triggerCount
\* of a goal that exists before and after it.
C13_TriggerCounts ==
    [][\A g \in EvalGoalIDs :
        goals[g].present /\ goals'[g].present =>
            /\ \A w \in WorkerIDs :
                w[2] = g /\ EndsEvaluation(w) /\ workers[w].answer.kind = "reply"
                         /\ ~HoldsTag(workers[w].answer.text)
                    => /\ goals'[g].TriggerCount = goals[g].TriggerCount + 1
                       /\ goals'[g].LastTriggered = TimeNow
            /\ goals'[g].TriggerCount # goals[g].TriggerCount
                    => \E w \in WorkerIDs :
                        w[2] = g /\ EndsEvaluation(w) /\ workers[w].answer.kind = "reply"
                                 /\ ~HoldsTag(workers[w].answer.text)]_vars

\* C13 witness: a goal has triggered once, on an empty reply, while it was
\* paused in between and the other goal was evaluated without a trigger.
C13_Witness ==
    \E g, h \in EvalGoalIDs :
        /\ g # h
        /\ goals[g].present /\ goals[g].TriggerCount = 1 /\ goals[g].LastTriggered = TimeNow
        /\ goals[g].Paused
        /\ goals[h].present /\ goals[h].TriggerCount = 0
        /\ \E e \in watchEmitted : e.goal = g /\ e.log \in TriggerLogs
        /\ PanicEmission(h) \in watchEmitted

\* C14 (as claimed): a trigger of a goal with action notify is logged and
\* raises a notification entry; a trigger of a goal with action suggest is
\* logged and raises none.
C14_NotifyRaisesEntry ==
    \A e \in watchEmitted :
        /\ e.log = "triggered (notify)" => e.notification
        /\ e.log = "triggered (suggest)" => ~e.notification

C16_PanicRecovered ==
    /\ [][\A w \in WorkerIDs :
            EndsEvaluation(w) /\ workers[w].answer.kind = "panic"
                => /\ workers'[w].pc = "select"
                   /\ ~crashed'
                   /\ goals' = goals
                   /\ \A v \in WorkerIDs \ {w} : workers'[v] = workers[v]]_vars
    /\ []~crashed

\* C16 witness: after a recovered panic of each goal's evaluation, the
\* worker of one goal is in a provider call again and the worker of the
\* other goal is at its select.
C16_Witness ==
    \E w, v \in WorkerIDs :
        /\ w[2] # v[2]
        /\ PanicEmission(w[2]) \in watchEmitted /\ PanicEmission(v[2]) \in watchEmitted
        /\ workers[w].pc = "chat"
        /\ workers[v].pc = "select"
        /\ ~crashed
\* C17 (as claimed): AddGoal accepts a goal whose session list is empty
\* (it stands for all sessions), when nothing else speaks against the goal.
C17_EmptyMeansAll ==
    lastAdd.called /\ lastAdd.allSessions => lastAdd.err = "ok" /\ lastAdd.changed

\* C18 (as claimed): every goal the manager holds has an interval of at
\* least one second.
C18_IntervalAtLeastSecond ==
    \A g \in GoalIDs : goals[g].present => goals[g].Interval >= Second
\* C19 (as claimed): PauseGoal(id) followed by ResumeGoal(id) returns an
\* existing goal to its original paused value, with TriggerCount unchanged.
C19_AsClaimed ==
    \A id \in EvalGoalIDs :
        goals[id].present =>
            /\ ResumedGoals(PausedGoals(goals, id), id)[id].Paused = goals[id].Paused
            /\ ResumedGoals(PausedGoals(goals, id), id)[id].TriggerCount = goals[id].TriggerCount

\* C19: PauseGoal(id) followed by ResumeGoal(id) leaves an existing goal
\* not paused, whatever its paused value was, and changes nothing else:
\* TriggerCount, every other field and every other goal stay as they were.
C19_PauseResume ==
    \A id \in EvalGoalIDs :
        goals[id].present =>
            ResumedGoals(PausedGoals(goals, id), id) = [goals EXCEPT ![id].Paused = FALSE]

\* C19 witness: a goal that has triggered is paused, by PauseGoal, beside a
\* goal that is not.
C19_Witness ==
    \E id, other \in EvalGoalIDs :
        /\ goals[id].present /\ goals[id].Paused /\ goals[id].TriggerCount = 1
        /\ ~goals[id].Expired
        /\ goals[other].present /\ ~goals[other].Paused

\* The contents a reader may find at path: the file as it was before, or the
\* complete document of one version of the memory.
CompleteContents == {Data(v) : v \in {PreviousVersion} \cup Versions}

\* C20: at every moment (so also when the process is killed there) the file
\* at path holds a complete document, the previous one or a new one, never
\* an empty, truncated or mixed one, also when two saves of the same file
\* run concurrently.
C20_CrashSafeSave ==
    fsDir["path"] # 0 => fsData[fsDir["path"]] \in CompleteContents

\* C21: when RemoveSession(id), LoadObservations(id) and GetObservations(id)
\* have returned in this order, with no Observe started since the removal
\* began and none that had still to store its observation, GetObservations
\* has returned no observations.
C21_RemoveSessionRemovesFile ==
    obsCall.stage = 3 => obsCall.result = <<>>

\* C22: an Observe whose captured content has the SHA-256 the session last
\* stored leaves the observation list as it is and writes nothing: the step
\* under the lock keeps the list and the file, and the call goes straight to
\* its return, never to SaveObservations.
C22_UnchangedIsIdempotent ==
    [][\A t \in ObsThreads :
          (/\ obsPc[t] = "cs"
           /\ obsPc'[t] # "cs"
           /\ obsSessions[obsLocal[t].sid].present
           /\ Sha256Hex(obsLocal[t].content) = obsSessions[obsLocal[t].sid].ContentHash)
          => /\ obsSessions'[obsLocal[t].sid].Observations = obsSessions[obsLocal[t].sid].Observations
             /\ obsSessions'[obsLocal[t].sid].ContentHash = obsSessions[obsLocal[t].sid].ContentHash
             /\ obsDisk' = obsDisk
             /\ obsPc'[t] = "return"]_vars

\* C22 witness: an Observe has found the hash of its content in a session
\* that holds an observation.
C22_Witness ==
    \E t \in ObsThreads :
        /\ obsLocal[t].outcome = "unchanged"
        /\ obsPc[t] = "return"
        /\ Len(obsSessions[obsLocal[t].sid].Observations) >= 1
        /\ Sha256Hex(obsLocal[t].content) = obsSessions[obsLocal[t].sid].ContentHash

\* C23: when a session holds exactly RetentionCount = N observations and
\* Observe stores a new one, the session holds N observations afterwards: the
\* oldest is gone, the others keep their order and the new one is last.
C23_FifoEviction ==
    [][\A t \in ObsThreads :
          (/\ obsPc[t] = "cs"
           /\ obsPc'[t] = "unlock"
           /\ Len(obsSessions[obsLocal[t].sid].Observations) = retentionCount)
          => LET old == obsSessions[obsLocal[t].sid].Observations
                 new == obsSessions'[obsLocal[t].sid].Observations
             IN  /\ Len(new) = retentionCount
                 /\ \A i \in 1..(retentionCount - 1) : new[i] = old[i + 1]
                 /\ new[retentionCount].ContentHash = Sha256Hex(obsLocal[t].content)]_vars

\* C23 witness: an Observe has evicted from a session that held two
\* different observations, and the session holds two again.
C23_Witness ==
    \E t \in ObsThreads :
        /\ obsLocal[t].outcome = "evicted"
        /\ obsPc[t] = "unlock"
        /\ retentionCount = 2
        /\ Len(obsSessions[obsLocal[t].sid].Observations) = 2
        /\ obsSessions[obsLocal[t].sid].Observations[1] # obsSessions[obsLocal[t].sid].Observations[2]

\* C24: WithRetry calls the wrapped function at most 4 times, sleeps 1 s, 2 s
\* and 4 s before the 2nd, 3rd and 4th call, returns nil at the first nil of
\* the function without a further call, and after 4 errors returns an error
\* that wraps the last one.
C24_RetryPolicy ==
    /\ [](/\ Len(retry.outcomes) <= 4
          /\ retry.slept = SubSeq(<<1000, 2000, 4000>>, 1, Len(retry.slept))
          /\ retry.pc = "call" => Len(retry.slept) = Len(retry.outcomes)
          /\ retry.pc \in {"sleep", "done", "panic"} => Len(retry.slept) = Len(retry.outcomes) - 1
          /\ \A i \in 1..(Len(retry.outcomes) - 1) : retry.outcomes[i] \in FnErrors
          /\ retry.pc = "done" =>
                IF retry.outcomes[Len(retry.outcomes)] = FnNil
                THEN retry.result.kind = "nil"
                ELSE /\ Len(retry.outcomes) = 4
                     /\ retry.result = [kind |-> "error", wraps |-> retry.outcomes[4]])
    /\ [][retry.pc = "done" => retry' = retry]_vars

\* C24 witness: a run has failed three times, has slept 1 s, 2 s and 4 s,
\* and its fourth call has returned nil.
C24_Witness ==
    /\ retry.pc = "done"
    /\ Len(retry.outcomes) = 4
    /\ retry.outcomes[4] = FnNil
    /\ retry.slept = <<1000, 2000, 4000>>
    /\ retry.result.kind = "nil"

\* C25: a panic inside a provider's Chat (also the one of a call on a nil
\* provider) never reaches the caller: the call returns an empty response
\* and an error tagged 'panic in <Provider> provider'.
C25_PanicBecomesError ==
    chat.provider # "none" =>
        /\ ~chat.result.panics
        /\ (chat.in.role = "user" /\ (chat.in.nilReceiver \/ chat.in.api = "panic")) =>
              /\ chat.result.err = <<"panic in provider", chat.provider>>
              /\ chat.result.response = ""

\* C26: triggerStatusUpdate can always run to its end, whatever the worker
\* does; at most one request is ever pending; a request sent to a full
\* channel is dropped (the pending one stays until the worker takes it); and
\* a pending request never keeps the worker from running its ticker's tick.
C26_TriggerNeverBlocks ==
    /\ [](/\ Len(statusTrigger) <= 1
          /\ ENABLED TriggerStatusUpdate
          /\ syncPc["bg"] = "idle" => ENABLED TickerFires)
    /\ [][statusTrigger # <<>> => statusTrigger' \in {statusTrigger, <<>>}]_vars

\* C26 witness: a request is pending while the worker is busy with the sync
\* of its ticker's tick, so that the next request of the UI is dropped.
C26_Witness ==
    /\ Len(statusTrigger) = 1
    /\ syncPc["bg"] = "sync"
    /\ lastTick.kind = "ticker"

\* No session occurs twice in the calls.
NoRepeat(calls) == \A i, j \in 1..Len(calls) : calls[i] = calls[j] => i = j

\* Every call on a visible session comes before every call on another one
\* (the viewport of the UI does not change in these runs).
VisibleFirst(calls) ==
    \A i, j \in 1..Len(calls) :
        (i < j /\ calls[j] \in VisibleIDs(RequestOf(view))) => calls[i] \in VisibleIDs(RequestOf(view))

C28_OnlyNonIdleUpdated ==
    [][(lastTick'.kind \in {"ticker", "trigger"} /\ <<lastTick'.kind, lastTick'.calls>> # <<lastTick.kind, lastTick.calls>>)
          => \A i \in 1..Len(lastTick'.calls) : status[lastTick'.calls[i]] # "idle"]_vars

\* C29: with FairSessions = 50 working sessions of which FairVisible = 10
\* are visible and a batch of 2, every tick advances the round-robin cursor
\* by exactly 2, wrapping at the end of the list, and after 5 ticks every
\* visible session was updated 5 times and every other session at most once.
C29_CursorAdvancesByBatch ==
    /\ [][fair'.ticks = fair.ticks + 1 =>
              statusUpdateIndex' = (statusUpdateIndex + 2) % Len(status)]_vars
    /\ [](fair.ticks = 5 =>
              \A s \in 1..Len(status) :
                  IF s \in VisibleIDs(RequestOf(view)) THEN fair.counts[s] = 5 ELSE fair.counts[s] <= 1)

\* No sync is between its comparison of the bar text and its write.
NoWritePending == \A q \in SyncProcs : syncPc[q] # "write"

\* C30: the status bar is written only if the formatted text differs from
\* the text of the last write: a sync that computes the text the bar was
\* last written with writes nothing, a sync that computes another text
\* writes it, once, and no write repeats the text of the write before it.
C30_WrittenOnlyIfChanged ==
    [][\A p \in SyncProcs :
          /\ (syncPc[p] = "derive" /\ syncPc'[p] # "derive" /\ NoWritePending) =>
                 /\ FormatBar(entries') = bar => syncPc'[p] = "keys" /\ bar' = bar
                 /\ FormatBar(entries') # bar => syncPc'[p] = "write" /\ bar' = bar
          /\ (syncPc[p] = "write" /\ syncPc'[p] # "write") =>
                 /\ bar' # bar
                 /\ bar' = FormatBar(entries)
                 /\ syncPc'[p] = "keys"]_vars

\* The sessions on a stack.
OnStack(stack) == {stack[i] : i \in 1..Len(stack)}

\* C31: the undo stack never holds more than 10 entries; a deletion puts
\* the session on top and, on a full stack, drops the oldest entry; an undo
\* hands the most recently deleted session of the stack to the restart and
\* takes it off the stack; an undo on an empty stack leaves the stack empty
\* and restores nothing.
C31_BoundedLifo ==
    /\ [](Len(undoStack) <= 10)
    /\ [][deleted' = deleted + 1 =>
             undoStack' = (IF Len(undoStack) = 10 THEN Tail(undoStack) ELSE undoStack) \o <<deleted'>>]_vars
    /\ [][deleted' = deleted =>
             IF undoStack = <<>>
             THEN undoStack' = <<>> /\ uiLast'.inst = 0
             ELSE /\ uiLast'.inst \in OnStack(undoStack)
                  /\ \A s \in OnStack(undoStack) : s <= uiLast'.inst
                  /\ OnStack(undoStack') = OnStack(undoStack) \ {uiLast'.inst}
                  /\ \A i \in 1..Len(undoStack') : undoStack'[i] = undoStack[i]]_vars

\* Twelve sessions were deleted, the two oldest fell off the full stack,
\* and an undo has restored the newest.
C31_Witness ==
    /\ deleted = 12
    /\ uiLast = [op |-> "undo", inst |-> 12]
    /\ undoStack = <<3, 4, 5, 6, 7, 8, 9, 10, 11>>

\* C32: after a reload the cursor is on the item of cursorSessionID if
\* the new list has it, otherwise on the group cursorGroupPath if the new
\* list has it, otherwise on the old position clamped into the list;
\* viewOffset is the old one clamped into the list; both are 0 with an
\* empty list, and neither is ever out of range.
C32_RestoreState ==
    uiLast.op = "reload" =>
        LET st == uiLast.state
            n == Len(flatItems)
            has(item) == \E i \in 1..n : flatItems[i] = item
        IN  /\ n = 0 => cursor = 0 /\ viewOffset = 0
            /\ n > 0 => cursor \in 0..(n - 1) /\ viewOffset \in 0..(n - 1)
            /\ n > 0 => viewOffset = (IF st.viewOffset > n - 1 THEN n - 1 ELSE st.viewOffset)
            /\ IF st.cursorSessionID # 0 /\ has(<<"session", st.cursorSessionID>>)
               THEN flatItems[cursor + 1] = <<"session", st.cursorSessionID>>
               ELSE IF st.cursorGroupPath # 0 /\ has(<<"group", st.cursorGroupPath>>)
               THEN flatItems[cursor + 1] = <<"group", st.cursorGroupPath>>
               ELSE n > 0 => cursor = (IF uiLast.cursor > n - 1 THEN n - 1 ELSE uiLast.cursor)

\* The session under the cursor moved from the third place to the first
\* and the list lost an item: the cursor followed the session, and the
\* viewport, which started at the third item, starts at the second.
C32_Witness ==
    /\ uiLast.op = "reload"
    /\ uiLast.cursor = 2
    /\ uiLast.state.cursorSessionID = 1
    /\ uiLast.state.viewOffset = 2
    /\ Len(flatItems) = 2
    /\ cursor = 0
    /\ viewOffset = 1

\* The goroutines between the Lock of Observe and its Unlock of line 161.
InObserveSection == {t \in ObsThreads : obsPc[t] \in {"cs", "unlock"}}

\* C33: Observe releases the write lock once for every Lock: the runtime
\* never sees an Unlock of a mutex that is not locked, the mutex is locked
\* as long as a goroutine is in the section that mutates, at most one
\* goroutine is in it, and a goroutine that persists does not hold the lock.
C33_LockDiscipline ==
    /\ ~crashed
    /\ InObserveSection # {} => obsMu = "locked"
    /\ Cardinality(InObserveSection) <= 1
    /\ \A t \in ObsThreads : obsPc[t] \in {"save", "persist"} /\ obsMu = "locked" => InObserveSection # {}

\* C34: the list that a save writes to the file of a session is a list
\* the session held at one instant between the lookup of the save and its
\* write, also when another Observe of the session evicts and appends
\* meanwhile.
C34_SavedListIsSnapshot ==
    [][\A sid \in ObsSessionIDs :
          obsDisk'[sid] # obsDisk[sid] =>
              \E t \in ObsThreads :
                  /\ obsPc[t] = "persist"
                  /\ obsLocal[t].sid = sid
                  /\ obsDisk'[sid] \in obsLocal[t].observed.instants]_vars

\* C36: also after LoadObservations of a file with more entries than
\* RetentionCount, or with contents longer than MaxSizeBytes, and after
\* any Observe that follows, no session retains more than RetentionCount
\* observations and no retained content is longer than MaxSizeBytes.
C36_BoundsAcrossLoads ==
    \A s \in ObsSessionIDs :
        LET kept == obsSessions[s].Observations
        IN  /\ Len(kept) <= retentionCount
            /\ \A i \in 1..Len(kept) : Len(kept[i].Content) <= maxSizeBytes

\* C35: the instance list is copied under the read lock and the lock is
\* released before any blocking work: no tick of the scheduler and no
\* notification sync calls UpdateStatus or Acknowledge on a session while
\* it holds instancesMu.
C35_NoCallUnderInstancesMu == lockedCalls = {}

\* C37: whenever the cache of the status counts is marked valid, the
\* cached counts are the numbers of sessions that have each status now,
\* whichever path changed a status last.
C37_ValidCacheIsCurrent ==
    cachedValid =>
        \A x \in {"running", "waiting", "idle"} :
            cachedCounts[x] = Cardinality({s \in 1..Len(status) : status[s] = x})

\* C38: Start and Stop are safe under repeated and overlapping calls: no
\* Stop closes a channel that is closed already (the close panics), a Stop
\* without a channel closes nothing, and a Start while the manager has a
\* channel makes none.
C38_StartStopSafe ==
    [][/\ (~crashed /\ crashed' /\ ~\E c \in WatchCallers : callPc[c] = "woken") =>
              ~(stopCh # 0 /\ stopCh \in closedChs)
       /\ stopCh = 0 => closedChs' = closedChs
       /\ stopCh # 0 => chanCount' = chanCount]_vars

\* C39: an edit in the watch dialog is all or nothing: when updateGoal
\* returns without error, the manager holds the edited goal under the ID
\* of the goal edited; when it returns an error, the manager holds under
\* that ID what it held when the edit began.
C39_EditIsAllOrNothing ==
    [][(edit.pc # "returned" /\ edit'.pc = "returned") =>
          IF edit'.err = "ok"
          THEN /\ goals'[edit'.id].present
               /\ goals'[edit'.id].Description = edit'.goal.Description
               /\ goals'[edit'.id].Sessions = edit'.goal.Sessions
          ELSE goals'[edit'.id] = edit'.orig]_vars

\* C40: the recorded last-written bar text does not diverge from the status
\* bar: whenever no notification sync is under way, after the foreground
\* and the background sync ran, the bar shows lastBarText.
C40_BarEqualsLastBarText ==
    (\A p \in SyncProcs : syncPc[p] = "idle") => bar = lastBarText

====
